---- MODULE Spec2Model ----
(***************************************************************************)
(* Collision primitives, collision dispatch and the helicopter AI's bomb   *)
(* ledger of Armor Alley, modelled from core/logic.js (src/unnamed/        *)
(* part_003), units/Helicopter.js (src/unnamed/part_000) and               *)
(* units/Helicopter-AI.js.                                                 *)
(*                                                                         *)
(* Arithmetic.  The source computes in IEEE doubles; the model computes in *)
(* exact rationals.  A rectangle carries a scale q: its real coordinates   *)
(* are x/q, y/q, width/q, height/q, vX/q, vY/q.  Input rectangles have     *)
(* q = 1; a source repositioned by collisionCheckTweens gets the scale of  *)
(* the tween divider.  A look-ahead is a rational [n, d].                  *)
(***************************************************************************)
EXTENDS Integers, Sequences, FiniteSets, TLC

VARIABLES
    \* ---- collisionCheck / collisionCheckX applied to two rectangles
    rect1, rect2, rect1XLookAhead, ccResult,
    \* ---- collisionCheckTweens applied to a source and a target
    sData, tData, repositionOnHit, tweenResult,
    \* ---- collision dispatch: the units, the zone buckets, the last pass
    units, zoneObjects, pass,
    \* ---- the bomb ledger of one CPU helicopter
    level, targets, bombsByTarget, frameTimeouts, bombs, ledgerLog,
    \* ---- the timers of one CPU helicopter's AI, and what they act on
    gameConfig, heli, opponent, aiTimers, aiTimeouts, smartMissiles, aiLog,
    \* ---- one tick of the AI: the helicopter, what it finds, what the tick did
    cpu, scene, tickLog,
    \* ---- collisionTest / nearbyTest on a unit: its zone membership, the
    \* buckets of the zones, what the call did
    member, objectsByZone, zoneLog,
    \* ---- a query function applied to a world: what it reads (the game's
    \* objects, the seeds, the session), the call, what it returned
    world, query, found

overlapVars == <<rect1, rect2, rect1XLookAhead, ccResult>>
tweenVars == <<sData, tData, repositionOnHit, tweenResult>>
dispatchVars == <<units, zoneObjects, pass>>
ledgerVars == <<level, targets, bombsByTarget, frameTimeouts, bombs, ledgerLog>>
aiVars == <<gameConfig, heli, opponent, aiTimers, aiTimeouts, smartMissiles, aiLog>>
tickVars == <<cpu, scene, tickLog>>
pilotVars == <<aiVars, tickVars>>
zoneVars == <<member, objectsByZone, zoneLog>>
locatorVars == <<world, query, found>>
queryVars == <<zoneVars, locatorVars>>
vars == <<overlapVars, tweenVars, dispatchVars, ledgerVars, pilotVars, queryVars>>

\* ------------------------------------------------------------------ bounds
\* rectangle positions of the overlap inputs: 0..MaxPos
MaxPos == 2
\* rectangle widths and heights: 1..MaxSize
MaxSize == 2
\* look-ahead of the overlap inputs: -MaxLook..MaxLook
MaxLook == 1
\* per-frame velocity of a tweened source on its faster axis: -MaxV..MaxV
MaxV == 6
\* widths and heights of a tweened source: 1..MaxTweenSize
MaxTweenSize == 1
\* bombs of the helicopter that are in flight at once
MaxBombs == 2
\* frame timeouts of the ledger that are pending at once
MaxTimers == 2
\* calls of a bomb's die that are counted
MaxDieCalls == 3
\* frames of fire that are counted
MaxFrames == 4

Abs(n) == IF n < 0 THEN -n ELSE n
Max(a, b) == IF a >= b THEN a ELSE b
Min(a, b) == IF a <= b THEN a ELSE b

\* ------------------------------------------------------------ rectangles
Rect(x, y, w, h) == [x |-> x, y |-> y, width |-> w, height |-> h, q |-> 1]

\* rationals [n, d], d > 0
Q(n, d) == [n |-> n, d |-> d]
QAdd(a, b) == [n |-> a.n * b.d + b.n * a.d, d |-> a.d * b.d]
QLt(a, b) == a.n * b.d < b.n * a.d
QNeg(a) == [n |-> -a.n, d |-> a.d]
Zero == Q(0, 1)

collisionCheckX(r1, r2, la) ==
    /\ QLt(QAdd(Q(r1.x, r1.q), la), Q(r2.x + r2.width, r2.q))
    /\ QLt(Q(r2.x, r2.q), QAdd(Q(r1.x + r1.width, r1.q), la))

\* the look-ahead widening the box on the side it points to, instead of moving it
ccWidened(r1, r2, la) ==
    /\ QLt(QAdd(Q(r1.x, r1.q), Q(Min(la.n, 0), la.d)), Q(r2.x + r2.width, r2.q))
    /\ QLt(Q(r2.x, r2.q), QAdd(Q(r1.x + r1.width, r1.q), Q(Max(la.n, 0), la.d)))
    /\ QLt(Q(r1.y, r1.q), Q(r2.y + r2.height, r2.q))
    /\ QLt(Q(r2.y, r2.q), Q(r1.y + r1.height, r1.q))

\* touching edges on the x axis counted as overlap (<= for <)
ccTouching(r1, r2, la) ==
    /\ ~QLt(Q(r2.x + r2.width, r2.q), QAdd(Q(r1.x, r1.q), la))
    /\ QLt(Q(r2.x, r2.q), QAdd(Q(r1.x + r1.width, r1.q), la))
    /\ QLt(Q(r1.y, r1.q), Q(r2.y + r2.height, r2.q))
    /\ QLt(Q(r2.y, r2.q), Q(r1.y + r1.height, r1.q))

cc(r1, r2, la) ==
    \* rect 2 is to the right.
    /\ QLt(QAdd(Q(r1.x, r1.q), la), Q(r2.x + r2.width, r2.q))
    \* overlap on x axis.
    /\ QLt(Q(r2.x, r2.q), QAdd(Q(r1.x + r1.width, r1.q), la))
    \* rect 1 is above rect 2.
    /\ QLt(Q(r1.y, r1.q), Q(r2.y + r2.height, r2.q))
    \* overlap on y axis.
    /\ QLt(Q(r2.y, r2.q), Q(r1.y + r1.height, r1.q))

collisionCheck(r1, r2, la) == cc(r1, r2, la)

collisionCheckWithOffsets(r1, r2, r1XOffset, r1YOffset) ==
    /\ QLt(QAdd(Q(r1.x, r1.q), r1XOffset), Q(r2.x + r2.width, r2.q))
    /\ QLt(Q(r2.x, r2.q), QAdd(Q(r1.x + r1.width, r1.q), r1XOffset))
    /\ QLt(QAdd(Q(r1.y, r1.q), r1YOffset), Q(r2.y + r2.height, r2.q))
    /\ QLt(Q(r2.y, r2.q), QAdd(Q(r1.y + r1.height, r1.q), r1YOffset))

\* ------------------------------------------------- collisionCheckTweens
\* twice tweenSteps: Math.max(2, parseInt(Math.max(|vX|, |vY|), 10) / 2)
tweenSteps2(s) == Max(4, Max(Abs(s.vX), Abs(s.vY)) \div s.q)

\* the number of passes of `for (i = 0; i < tweenSteps; i++)`
tweenIterations(s) == (tweenSteps2(s) + 1) \div 2

\* twice tweenDivider = tweenSteps + 1
tweenDivider2(s) == tweenSteps2(s) + 2

\* the offset after k steps, -v + k * (v / tweenDivider), for a velocity v / s.q
tweenOffset(s, v, k) == Q(v * (2 * k - tweenDivider2(s)), s.q * tweenDivider2(s))

\* the first k in 1..tweenIterations whose offset overlaps; 0 when none does
firstTweenHit(s, t) ==
    LET hits == {k \in 1..tweenIterations(s) :
                   collisionCheckWithOffsets(s, t, tweenOffset(s, s.vX, k),
                                             tweenOffset(s, s.vY, k))}
    IN  IF hits = {} THEN 0 ELSE CHOOSE k \in hits : \A j \in hits : k <= j

\* sData.x += xOffset; sData.y += yOffset, on the scale of the offset
repositioned(s, k) ==
    LET d == tweenDivider2(s)
    IN  [s EXCEPT !.x = s.x * d + s.vX * (2 * k - d),
                  !.y = s.y * d + s.vY * (2 * k - d),
                  !.width = s.width * d, !.height = s.height * d,
                  !.vX = s.vX * d, !.vY = s.vY * d, !.q = s.q * d]

\* the exemption forgetting that a hostile object still hits when expired
tweenExemptIgnoresHostile(s, t) == s.expired \/ t.expired

tweenExempt(s, t) == (s.expired /\ ~s.hostile) \/ (t.expired /\ ~t.hostile)

\* the source moved on a hit whatever repositionOnHit says (the mutant of C27)
collisionCheckTweensAlwaysMoves(s, t, reposition) ==
    IF tweenExempt(s, t) THEN [returned |-> "undefined", sData |-> s, step |-> 0]
    ELSE LET k == firstTweenHit(s, t)
         IN  IF k > 0
             THEN [returned |-> "true", step |-> k, sData |-> repositioned(s, k)]
             ELSE [returned |-> "false", sData |-> s, step |-> 0]

\* returns [returned: "undefined" | "true" | "false", sData: the source after
\* the call, step: the step that hit]
collisionCheckTweens(s, t, reposition) ==
    IF tweenExempt(s, t) THEN [returned |-> "undefined", sData |-> s, step |-> 0]
    ELSE LET k == firstTweenHit(s, t)
         IN  IF k > 0
             THEN [returned |-> "true", step |-> k,
                   sData |-> IF reposition THEN repositioned(s, k) ELSE s]
             ELSE [returned |-> "false", sData |-> s, step |-> 0]

\* ------------------------------------------- specification: overlap tests
Positions == 0..MaxPos
Sizes == 1..MaxSize
InputRects == {Rect(x, y, w, h) : x \in Positions, y \in Positions, w \in Sizes, h \in Sizes}
\* rect A {x:0, width:10} against rect B at x:8 and at x:20
ScenarioA == Rect(0, 0, 10, 10)
ScenarioB == {Rect(8, 0, 10, 10), Rect(20, 0, 10, 10)}

CallCollisionCheck ==
    /\ ccResult.fn = "none"
    /\ ccResult' = [fn |-> "collisionCheck",
                    returned |-> collisionCheck(rect1, rect2, rect1XLookAhead)]
    /\ UNCHANGED <<rect1, rect2, rect1XLookAhead, tweenVars, dispatchVars, ledgerVars, pilotVars, queryVars>>

CallCollisionCheckX ==
    /\ ccResult.fn = "none"
    /\ ccResult' = [fn |-> "collisionCheckX",
                    returned |-> collisionCheckX(rect1, rect2, rect1XLookAhead)]
    /\ UNCHANGED <<rect1, rect2, rect1XLookAhead, tweenVars, dispatchVars, ledgerVars, pilotVars, queryVars>>

\* ------------------------------------- specification: collisionCheckTweens
Mover(x, y, w, h, v, expired, hostile) ==
    [x |-> x, y |-> y, width |-> w, height |-> h, q |-> 1,
     vX |-> v[1], vY |-> v[2], expired |-> expired, hostile |-> hostile]

\* a source at the origin moving fast on one axis and slowly on the other,
\* and a resting target within reach of its path
FastV == -MaxV..MaxV
SlowV == {-1, 0, 1}
Near(v) == -(Abs(v) + 2)..(Abs(v) + 2)
TargetSizes == {1, 2}
TweenV == (FastV \X SlowV) \cup (SlowV \X FastV)
TweenCases(v) ==
    {<<Mover(0, 0, w, h, v, FALSE, FALSE), Mover(x, y, tw, th, <<0, 0>>, FALSE, FALSE)>> :
        w \in 1..MaxTweenSize, h \in 1..MaxTweenSize,
        x \in Near(v[1]), y \in Near(v[2]), tw \in TargetSizes, th \in TargetSizes}
\* expired and hostile flags, on a source that overlaps its target all the way
ExpiredCases ==
    {<<Mover(0, 0, 1, 1, <<1, 0>>, se, sh), Mover(-1, 0, 2, 1, <<0, 0>>, te, th)>> :
        se \in BOOLEAN, sh \in BOOLEAN, te \in BOOLEAN, th \in BOOLEAN}

NoTween == [returned |-> "none", step |-> 0, sData |-> Mover(0, 0, 1, 1, <<0, 0>>, FALSE, FALSE)]

\* tweenResult.sData keeps the source as it was passed; sData is the source after
CallCollisionCheckTweens ==
    /\ tweenResult.returned = "none"
    /\ \E reposition \in BOOLEAN :
          LET r == collisionCheckTweens(sData, tData, reposition)
          IN  /\ tweenResult' = [returned |-> r.returned, step |-> r.step, sData |-> sData]
              /\ sData' = r.sData
              /\ repositionOnHit' = reposition
    /\ UNCHANGED <<tData, overlapVars, dispatchVars, ledgerVars, pilotVars, queryVars>>

\* ------------------------------------------------------ the bomb ledger
\* bombsByTarget maps a key (a target id, or "men") to
\* [bombCount, bombLimit, timer]; timer is the id of the frame timeout that
\* clearBombWithDelay stored in the entry, 0 for null.
\* frameTimeouts holds the pending timeouts of common.setFrameTimeout, each
\* [id, key] for the callback () => delete bombsByTarget[key]; addsSince is
\* history: whether addBomb has counted a bomb for the key since it was scheduled.
TargetIDs == {"t1", "t2"}
Keys == TargetIDs \cup {"men"}

\* the targets of a battle, by id
LevelTargets ==
    { [t1 |-> "infantry", t2 |-> "infantry"],
      [t1 |-> "tank", t2 |-> "turret"],
      [t1 |-> "helicopter", t2 |-> "van"] }

getBombTargetID(target) ==
    IF target.type \in {"infantry", "engineer"} /\ level.bNapalm THEN "men" ELSE target.id

\* the limit of a new entry, one short for tanks and helicopters
newBombLimitShort(type) == IF type \in {"tank", "helicopter"} THEN 2 ELSE 1

newBombLimit(type) == IF type \in {"tank", "helicopter"} THEN 3 ELSE 1

\* canBombTarget comparing with > instead of >=
canBombTargetOffByOne(ledger, target) ==
    IF target.type = "turret" THEN [returned |-> TRUE, bombsByTarget |-> ledger]
    ELSE LET id == getBombTargetID(target)
             made == IF id \in DOMAIN ledger THEN ledger
                     ELSE [k \in DOMAIN ledger \cup {id} |->
                             IF k = id
                             THEN [bombCount |-> 0, bombLimit |-> newBombLimit(target.type),
                                   timer |-> 0]
                             ELSE ledger[k]]
         IN  [returned |-> ~(made[id].bombCount > made[id].bombLimit),
              bombsByTarget |-> made]

\* returns [returned, bombsByTarget]; undefined is returned FALSE
canBombTarget(ledger, target) ==
    IF target.type = "turret" THEN [returned |-> TRUE, bombsByTarget |-> ledger]
    ELSE LET id == getBombTargetID(target)
             made == IF id \in DOMAIN ledger THEN ledger
                     ELSE [k \in DOMAIN ledger \cup {id} |->
                             IF k = id
                             THEN [bombCount |-> 0, bombLimit |-> newBombLimit(target.type),
                                   timer |-> 0]
                             ELSE ledger[k]]
         IN  [returned |-> ~(made[id].bombCount >= made[id].bombLimit),
              bombsByTarget |-> made]

\* timer.reset(): the pending timeout is cancelled
resetTimeout(timeouts, id) == {tm \in timeouts : tm.id # id}

\* returns [bombsByTarget, frameTimeouts]
addBomb(ledger, timeouts, target) ==
    LET id == getBombTargetID(target)
    IN  IF id \notin DOMAIN ledger
        THEN [bombsByTarget |-> ledger, frameTimeouts |-> timeouts]
        ELSE [bombsByTarget |->
                [ledger EXCEPT ![id].bombCount = @ + 1, ![id].timer = 0],
              frameTimeouts |->
                IF ledger[id].timer # 0 THEN resetTimeout(timeouts, ledger[id].timer)
                ELSE timeouts]

\* removeBomb keeping the entry when its count reaches zero
removeBombKeepsEntry(ledger, target) ==
    LET id == getBombTargetID(target)
    IN  IF id \notin DOMAIN ledger THEN ledger
        ELSE [ledger EXCEPT ![id].bombCount = Max(0, @ - 1)]

\* removeBomb testing for zero before it decrements
removeBombChecksFirst(ledger, target) ==
    LET id == getBombTargetID(target)
    IN  IF id \notin DOMAIN ledger THEN ledger
        ELSE IF ledger[id].bombCount = 0
             THEN [k \in DOMAIN ledger \ {id} |-> ledger[k]]
             ELSE [ledger EXCEPT ![id].bombCount = Max(0, @ - 1)]

removeBomb(ledger, target) ==
    LET id == getBombTargetID(target)
    IN  IF id \notin DOMAIN ledger THEN ledger
        ELSE IF Max(0, ledger[id].bombCount - 1) = 0
             THEN [k \in DOMAIN ledger \ {id} |-> ledger[k]]
             ELSE [ledger EXCEPT ![id].bombCount = Max(0, @ - 1)]

\* the id setFrameTimeout gives a new timeout
freeTimeout(timeouts) ==
    CHOOSE n \in 1..(MaxTimers + 1) :
        /\ \A tm \in timeouts : tm.id # n
        /\ \A m \in 1..(n - 1) : \E tm \in timeouts : tm.id = m

\* returns [bombsByTarget, frameTimeouts]
clearBombWithDelay(ledger, timeouts, target) ==
    LET id == getBombTargetID(target)
        n == freeTimeout(timeouts)
    IN  IF id \notin DOMAIN ledger \/ ledger[id].timer # 0
        THEN [bombsByTarget |-> ledger, frameTimeouts |-> timeouts]
        ELSE [bombsByTarget |-> [ledger EXCEPT ![id].timer = n],
              frameTimeouts |-> timeouts \cup {[id |-> n, key |-> id, addsSince |-> FALSE]}]

\* ----------------------------------------- specification: the bomb ledger
Target(id) == [id |-> id, type |-> targets[id].type, dead |-> targets[id].dead]
countOf(ledger, key) == IF key \in DOMAIN ledger THEN ledger[key].bombCount ELSE 0
inFlight == bombs["t1"] + bombs["t2"]
emptyLedger == [k \in {} |-> 0]

\* history of the run of addBomb and removeBomb calls on the watched key since
\* the key last had no entry: ok while no addBomb has followed a removeBomb
NoRun == [adds |-> 0, removes |-> 0, ok |-> FALSE]
NoLog == [op |-> "none", key |-> "none", type |-> "none", refused |-> FALSE,
          before |-> 0, wiped |-> 0, addsSince |-> FALSE,
          removedAbsent |-> FALSE, changed |-> FALSE]

runAfterAdd(run, present) ==
    IF ~present THEN [adds |-> 1, removes |-> 0, ok |-> TRUE]
    ELSE IF run.ok /\ run.removes = 0 THEN [run EXCEPT !.adds = @ + 1]
    ELSE NoRun

runAfterRemove(run) == IF run.ok THEN [run EXCEPT !.removes = @ + 1] ELSE run

\* fire(): the bombing branch of a CPU helicopter whose nearest bomb vote is
\* target id (data.bombing, bombFrameCount 0, data.bombs > 0)
Fire(id) ==
    LET bombTarget == Target(id)
        key == getBombTargetID(bombTarget)
        can == canBombTarget(bombsByTarget, bombTarget)
        added == addBomb(can.bombsByTarget, frameTimeouts, bombTarget)
        counted == bombTarget.type # "turret"
        log == [NoLog EXCEPT !.op = "fire", !.key = key, !.type = bombTarget.type,
                             !.before = countOf(bombsByTarget, key),
                             !.refused = ~can.returned]
    IN  /\ ~targets[id].dead
        /\ IF ~can.returned
           THEN \* exit if already at limit.
                /\ bombsByTarget' = can.bombsByTarget
                /\ ledgerLog' = [ledgerLog EXCEPT !.log = log]
                /\ UNCHANGED <<frameTimeouts, bombs>>
           ELSE /\ inFlight < MaxBombs
                /\ bombsByTarget' = added.bombsByTarget
                /\ frameTimeouts' =
                     {IF tm.key = key /\ counted THEN [tm EXCEPT !.addsSince = TRUE] ELSE tm :
                        tm \in added.frameTimeouts}
                \* game.addObject(TYPES.bomb, params), params.onDie bound to bombTarget
                /\ bombs' = [bombs EXCEPT ![id] = @ + 1]
                /\ ledgerLog' =
                     [log |-> log,
                      run |-> IF key = level.watch /\ counted
                              THEN runAfterAdd(ledgerLog.run, key \in DOMAIN bombsByTarget)
                              ELSE ledgerLog.run]
        /\ UNCHANGED <<level, targets, overlapVars, tweenVars, dispatchVars, pilotVars, queryVars>>

\* params.onDie of a bomb dropped at target id; didHitTarget is whether the
\* bomb died on that target, which bombHitTarget never lets it do on infantry
BombDie(id, didHitTarget) ==
    LET bombTarget == Target(id)
        key == getBombTargetID(bombTarget)
        c1 == IF didHitTarget
              THEN clearBombWithDelay(bombsByTarget, frameTimeouts, bombTarget)
              ELSE [bombsByTarget |-> bombsByTarget, frameTimeouts |-> frameTimeouts]
        removes == bombTarget.dead \/ ~didHitTarget
        r2 == IF removes THEN removeBomb(c1.bombsByTarget, bombTarget) ELSE c1.bombsByTarget
        c3 == IF bombTarget.dead
              THEN clearBombWithDelay(r2, c1.frameTimeouts, bombTarget)
              ELSE [bombsByTarget |-> r2, frameTimeouts |-> c1.frameTimeouts]
    IN  /\ bombs[id] > 0
        /\ didHitTarget => bombTarget.type # "infantry"
        /\ Cardinality(frameTimeouts) < MaxTimers
        /\ bombs' = [bombs EXCEPT ![id] = @ - 1]
        /\ bombsByTarget' = c3.bombsByTarget
        /\ frameTimeouts' = c3.frameTimeouts
        /\ ledgerLog' =
             [log |-> [NoLog EXCEPT !.op = IF removes THEN "remove" ELSE "clear",
                                    !.key = key, !.type = bombTarget.type,
                                    !.before = countOf(bombsByTarget, key),
                                    !.removedAbsent =
                                        removes /\ key \notin DOMAIN c1.bombsByTarget,
                                    !.changed = r2 # c1.bombsByTarget],
              run |-> IF key = level.watch /\ removes
                      THEN runAfterRemove(ledgerLog.run) ELSE ledgerLog.run]
        /\ UNCHANGED <<level, targets, overlapVars, tweenVars, dispatchVars, pilotVars, queryVars>>

\* a target is destroyed, by this helicopter's bomb or by anything else
TargetDies(id) ==
    /\ ~targets[id].dead
    /\ targets' = [targets EXCEPT ![id].dead = TRUE]
    /\ UNCHANGED <<level, bombsByTarget, frameTimeouts, bombs, ledgerLog,
                   overlapVars, tweenVars, dispatchVars, pilotVars, queryVars>>

\* setRespawning(true): a destroyed helicopter comes back under its id
TargetRespawns(id) ==
    /\ targets[id].dead /\ targets[id].type = "helicopter"
    /\ targets' = [targets EXCEPT ![id].dead = FALSE]
    /\ UNCHANGED <<level, bombsByTarget, frameTimeouts, bombs, ledgerLog,
                   overlapVars, tweenVars, dispatchVars, pilotVars, queryVars>>

\* a pending frame timeout fires: () => delete bombsByTarget[id]
FrameTimeout(tm) ==
    /\ tm \in frameTimeouts
    /\ frameTimeouts' = frameTimeouts \ {tm}
    /\ bombsByTarget' = [k \in DOMAIN bombsByTarget \ {tm.key} |-> bombsByTarget[k]]
    /\ ledgerLog' = [ledgerLog EXCEPT !.log =
                       [NoLog EXCEPT !.op = "expire", !.key = tm.key,
                                     !.wiped = countOf(bombsByTarget, tm.key),
                                     !.addsSince = tm.addsSince]]
    /\ UNCHANGED <<level, targets, bombs, overlapVars, tweenVars, dispatchVars, pilotVars, queryVars>>

\* ---------------------------------------------------- collision dispatch
\* units maps an id to the unit's data (getObjectById(id)?.data; an id outside
\* the domain is an object that no longer exists).  Infantry with role 1 are
\* engineers.  xLookAhead and widthOneThird are <<>> while undefined.

\* the source unfit only when missing or dead
sourceUnfitOnlyWhenDead(us, source) ==
    \/ source \notin DOMAIN us
    \/ us[source].dead

\* the source is not checked at all
sourceUnfit(us, source) ==
    \/ source \notin DOMAIN us
    \/ us[source].dead
    \/ us[source].isInert
    \/ (us[source].expired /\ ~us[source].hostile)

\* sData.widthOneThird = sData.width * 0.33, defined only once
withWidthOneThird(s, useLookAhead) ==
    IF useLookAhead /\ s.xLookAhead = <<>> /\ s.widthOneThird = <<>>
    THEN [s EXCEPT !.widthOneThird = <<Q(33 * s.width, 100 * s.q)>>]
    ELSE s

\* sData.xLookAhead || sData.widthOneThird || 16, negated for an enemy;
\* s is the source after withWidthOneThird
xLookAheadOf(s, useLookAhead) ==
    IF ~useLookAhead THEN Zero
    ELSE LET la == IF s.xLookAhead # <<>> /\ s.xLookAhead[1] # 0 THEN Q(s.xLookAhead[1], 1)
                   ELSE IF s.widthOneThird # <<>> /\ s.widthOneThird[1].n # 0
                        THEN s.widthOneThird[1]
                        ELSE Q(16, 1)
         IN  IF s.isEnemy THEN QNeg(la) ELSE la

\* the eligibility clause without its test of excludeFromCollision
eligibleIgnoresExcluded(s, t, friendlyOnly) ==
    /\ t.id # s.id
    /\ (~t.dead \/ (t.type = "turret" /\ s.type = "infantry" /\ s.role # 0))
    /\ \/ (t.isEnemy # s.isEnemy /\ ~friendlyOnly)
       \/ (friendlyOnly /\ t.isEnemy = s.isEnemy)
       \/ (s.type = "infantry" /\ s.role # 0 /\ t.type = "turret")
       \/ s.hostile \/ t.hostile \/ s.isNeutral \/ t.isNeutral

\* the clause that lets a target of the bucket be tested against the source
eligible(s, t, friendlyOnly) ==
    \* don't compare the object against itself
    /\ t.id # s.id
    \* ignore "excluded" objects
    /\ ~t.excludeFromCollision
    \* ignore dead targets (unless a turret, and the source an engineer)
    /\ (~t.dead \/ (t.type = "turret" /\ s.type = "infantry" /\ s.role # 0))
    /\ \/ (t.isEnemy # s.isEnemy /\ ~friendlyOnly)
       \/ (friendlyOnly /\ t.isEnemy = s.isEnemy)
       \/ (s.type = "helicopter" /\ t.type = "super-bunker")
       \/ (s.type = "infantry" /\ t.type = "bunker")
       \/ (t.type = "infantry" /\
             \/ (s.type = "end-bunker" /\ t.role = 0)
             \/ (s.type = "super-bunker" /\ t.role = 0)
             \/ s.type = "helicopter")
       \/ (s.type = "infantry" /\ s.role # 0 /\ t.type = "turret")
       \/ s.hostile \/ t.hostile \/ s.isNeutral \/ t.isNeutral

\* collisionCheck || (checkTweens && collisionCheckTweens) || the super bunker's
\* negative look-ahead; sData is the source after the test
overlapTest(s, t, options, la) ==
    IF collisionCheck(s, t, la) THEN [hit |-> TRUE, sData |-> s]
    ELSE LET tween == IF options.checkTweens
                      THEN collisionCheckTweens(s, t, options.checkTweensRepositionOnHit)
                      ELSE [returned |-> "false", sData |-> s, step |-> 0]
         IN  IF tween.returned = "true" THEN [hit |-> TRUE, sData |-> tween.sData]
             ELSE [hit |-> t.type = "helicopter" /\ s.type = "super-bunker"
                             /\ collisionCheck(s, t, QNeg(la)),
                   sData |-> s]

\* what options.hit(tData.id, null, options.source) does to the units
HitEffects == {"none", "targetDies", "sourceDies", "othersDie"}
hitEffect(us, source, target, effect) ==
    [id \in DOMAIN us |->
        IF \/ (effect = "targetDies" /\ id = target)
           \/ (effect = "sourceDies" /\ id = source)
           \/ (effect = "othersDie" /\ id # target /\ id # source)
        THEN [us[id] EXCEPT !.dead = TRUE]
        ELSE us[id]]

hitRecord(s, t) ==
    [id |-> t.id, type |-> t.type, dead |-> t.dead,
     excludeFromCollision |-> t.excludeFromCollision,
     source |-> [id |-> s.id, type |-> s.type, role |-> s.role, dead |-> s.dead]]

\* one pass of the loop body, on the target at index i; acc is
\* [units, foundHit, scanned, hitLog]
scanTarget(options, la, effects, i, acc) ==
    LET targetID == options.targets[i]
        us == acc.units
        next == [acc EXCEPT !.scanned = @ + 1]
    IN  IF targetID \notin DOMAIN us
           \/ ~eligible(us[options.source], us[targetID], options.friendlyOnly)
        THEN next
        ELSE CHOOSE r \in
               {IF ~test.hit THEN next
                ELSE [next EXCEPT
                        !.foundHit = TRUE,
                        !.hitLog = IF options.hit
                                   THEN Append(@, hitRecord(test.sData, us[targetID]))
                                   ELSE @,
                        !.units = IF options.hit
                                  THEN hitEffect([us EXCEPT ![options.source] = test.sData],
                                                 options.source, targetID, effects[targetID])
                                  ELSE [us EXCEPT ![options.source] = test.sData]] :
                test \in {overlapTest(us[options.source], us[targetID], options, la)}} : TRUE

\* for (targetID in options.targets), from index i on
RECURSIVE scanTargets(_, _, _, _, _)
scanTargets(options, la, effects, i, acc) ==
    IF i > Len(options.targets) THEN acc
    ELSE CHOOSE r \in {scanTargets(options, la, effects, i + 1, after) :
                         after \in {scanTarget(options, la, effects, i, acc)}} : TRUE

\* returns [returned: "false" | "undefined" | "true", units, scanned, hitLog];
\* options.targets is [present, ids]
collisionCheckObject(options, us, effects) ==
    IF ~options.targets.present \/ sourceUnfit(us, options.source)
    THEN [returned |-> "false", units |-> us, scanned |-> 0, hitLog |-> <<>>]
    ELSE LET s == withWidthOneThird(us[options.source], options.useLookAhead)
             r == CHOOSE acc \in
                    {scanTargets([options EXCEPT !.targets = options.targets.ids], la,
                                 effects, 1, start) :
                       la \in {xLookAheadOf(s, options.useLookAhead)},
                       start \in {[units |-> [us EXCEPT ![options.source] = s],
                                   foundHit |-> FALSE, scanned |-> 0, hitLog |-> <<>>]}} : TRUE
         IN  [returned |-> IF r.foundHit THEN "true" ELSE "undefined",
              units |-> r.units, scanned |-> r.scanned, hitLog |-> r.hitLog]

\* -------------------------------------- specification: collision dispatch
Unit(id, type, role, isEnemy, x) ==
    [id |-> id, type |-> type, role |-> role, isEnemy |-> isEnemy,
     dead |-> FALSE, isInert |-> FALSE, expired |-> FALSE, hostile |-> FALSE,
     isNeutral |-> FALSE, excludeFromCollision |-> FALSE,
     x |-> x, y |-> 0, width |-> IF id = "s" THEN 3 ELSE 1, height |-> 1, q |-> 1,
     vX |-> 0, vY |-> 0, xLookAhead |-> <<>>, widthOneThird |-> <<>>]

SourceKinds == {[type |-> "gunfire", role |-> 0], [type |-> "helicopter", role |-> 0],
                [type |-> "infantry", role |-> 0], [type |-> "infantry", role |-> 1]}
SourceStatus == {"ok", "dead", "inert", "expired", "expiredHostile", "missing"}
BucketTypes == {"turret", "tank", "infantry"}
\* the bucket of the zone for the collision's one item: absent, empty, two
\* targets, or the source's own bucket; "gone" is an id without an object
Buckets == {[present |-> FALSE, ids |-> <<>>], [present |-> TRUE, ids |-> <<>>],
            [present |-> TRUE, ids |-> <<"a", "b">>],
            [present |-> TRUE, ids |-> <<"s", "gone", "a">>]}

\* gunfire moves four units a frame, to the right, or to the left when enemy
Source(kind, isEnemy, status) ==
    [Unit("s", kind.type, kind.role, isEnemy, 0) EXCEPT
        !.vX = IF kind.type = "gunfire" THEN (IF isEnemy THEN -4 ELSE 4) ELSE 0,
        !.dead = status = "dead",
        !.isInert = status = "inert",
        !.expired = status \in {"expired", "expiredHostile"},
        !.hostile = status = "expiredHostile"]

NoPass == [fn |-> "none", calls |-> 0, returned |-> "none", scanned |-> 0,
           hitLog |-> <<>>, source |-> <<>>, changed |-> FALSE]

\* the record of a pass: r is what collisionCheckObject returned on units us
passOf(fn, options, us, r) ==
        [fn |-> fn, calls |-> 1, returned |-> r.returned, scanned |-> r.scanned,
         hitLog |-> r.hitLog, changed |-> r.units # us,
         source |-> IF options.source \in DOMAIN us THEN <<us[options.source]>> ELSE <<>>]

\* collisionTest on a source with one zone and one collision item: the
\* options of gunfire, bombs and helicopters (a hit callback, no look-ahead)
CallCollisionCheckZone ==
    /\ pass.fn = "none"
    /\ \E checkTweens \in BOOLEAN, effects \in [{"a", "b"} -> HitEffects] :
          LET options == [source |-> "s", targets |-> zoneObjects, hit |-> TRUE,
                          useLookAhead |-> FALSE, friendlyOnly |-> FALSE,
                          checkTweens |-> checkTweens,
                          checkTweensRepositionOnHit |-> TRUE]
          IN  IF zoneObjects.present
              THEN \E r \in {collisionCheckObject(options, units, effects)} :
                      /\ pass' = passOf("collisionCheckZone", options, units, r)
                      /\ units' = r.units
              ELSE /\ pass' = [NoPass EXCEPT !.fn = "collisionCheckZone"]
                   /\ units' = units
    /\ UNCHANGED <<zoneObjects, overlapVars, tweenVars, ledgerVars, pilotVars, queryVars>>

\* nearbyTest on a source with one zone and one nearby item
CallCheckNearbyItems ==
    /\ pass.fn = "none"
    /\ "s" \in DOMAIN units
    /\ \E useLookAhead \in BOOLEAN, friendlyOnly \in BOOLEAN, hit \in BOOLEAN,
          effects \in [{"a", "b"} -> HitEffects] :
          LET options == [source |-> "s", targets |-> zoneObjects, hit |-> hit,
                          useLookAhead |-> useLookAhead, friendlyOnly |-> friendlyOnly,
                          checkTweens |-> FALSE, checkTweensRepositionOnHit |-> TRUE]
          IN  IF zoneObjects.present
              THEN \E r \in {collisionCheckObject(options, units, effects)} :
                      /\ pass' = passOf("checkNearbyItems", options, units, r)
                      /\ units' = r.units
              ELSE /\ pass' = [NoPass EXCEPT !.fn = "checkNearbyItems"]
                   /\ units' = units
    /\ UNCHANGED <<zoneObjects, overlapVars, tweenVars, ledgerVars, pilotVars, queryVars>>

\* ------------------------------------------------- the AI's frame timeouts
\* One CPU helicopter (heli) with its AI closure (aiTimers), one opposing
\* helicopter (opponent), the frame timeouts the AI and
\* the helicopter have pending (aiTimeouts: how many of each kind), and the
\* number of active smart missiles whose target is the opponent.
MaxPending == 1
MaxActiveMissiles == 2

TimeoutKinds ==
    {"missileLaunch", "missileLaunchStop",
     "respondToHit", "retaliation", "paratrooperDrop", "parachutingStart",
     "parachutingStop", "missileReloading", "respawn", "respawnComplete"}

\* the timeouts created by the AI (the others are the helicopter's own)
AIKinds ==
    {"missileLaunch", "missileLaunchStop",
     "respondToHit", "retaliation", "paratrooperDrop", "parachutingStart",
     "parachutingStop"}

NoTimeouts == [k \in TimeoutKinds |-> 0]

NoTimers ==
    [missileTarget |-> "null", missileLaunchTimer |-> FALSE,
     respondToHitTimer |-> FALSE, paratrooperDropTimer |-> FALSE,
     parachutingActiveTimer |-> FALSE]

missileEnergyThreshold(gameType) ==
    IF gameType = "extreme" THEN 8 ELSE IF gameType = "hard" THEN 5 ELSE 2

oneMissileOnly(gameType) == gameType # "extreme"

\* common.setFrameTimeout(callback, delay): one more callback of this kind
\* will run, once, at a later frame
setFrameTimeout(timeouts, kind) == [timeouts EXCEPT ![kind] = @ + 1]

\* the AI's view of the program: the helicopter's data, the closure's timer
\* variables, the pending timeouts
AIState == [heli |-> heli, aiTimers |-> aiTimers, aiTimeouts |-> aiTimeouts]

\* objectInView(data, {items}): alive, not cloaked, within trigger distance
objectInView(unit, inRange) == ~unit.dead /\ ~unit.cloaked /\ inRange

maybeEngageRetaliationMode(c) ==
    IF ~gameConfig.killCopterB \/ ~c.heli.attackB THEN c
    ELSE IF c.heli.retaliation THEN c
    ELSE [c EXCEPT !.aiTimeouts = setFrameTimeout(@, "retaliation")]

\* the roll scheduled whatever is pending (the mutant of C21)
maybeChaseHelicoptersUnthrottled(c) ==
    IF ~gameConfig.killCopterB \/ ~c.heli.attackB THEN c
    ELSE IF c.heli.helicopters THEN c
    ELSE [c EXCEPT !.aiTimers.respondToHitTimer = TRUE,
                   !.aiTimeouts = setFrameTimeout(@, "respondToHit")]

maybeChaseHelicopters(c) ==
    IF ~gameConfig.killCopterB \/ ~c.heli.attackB THEN c
    ELSE IF c.heli.helicopters THEN c
    ELSE IF c.aiTimers.respondToHitTimer THEN c
    ELSE [c EXCEPT !.aiTimers.respondToHitTimer = TRUE,
                   !.aiTimeouts = setFrameTimeout(@, "respondToHit")]

\* the one-missile rule as the claims state it (the mutant of C13 drops the
\* throttle on a pending launch)
maybeFireMissileAtHelicopterUnthrottled(c, inRange) ==
    IF ~gameConfig.useMissileB THEN c
    ELSE IF c.heli.smartMissiles = 0 THEN c
    ELSE IF ~objectInView(opponent, inRange) THEN c
    ELSE IF oneMissileOnly(gameConfig.gameType) /\ smartMissiles > 0 THEN c
    ELSE [c EXCEPT !.aiTimers.missileLaunchTimer = TRUE,
                   !.aiTimeouts = setFrameTimeout(@, "missileLaunch")]

maybeFireMissileAtHelicopter(c, inRange) ==
    IF ~gameConfig.useMissileB THEN c
    ELSE IF c.aiTimers.missileLaunchTimer THEN c
    ELSE IF c.heli.smartMissiles = 0 THEN c
    ELSE IF ~objectInView(opponent, inRange) THEN c
    ELSE IF oneMissileOnly(gameConfig.gameType) /\ smartMissiles > 0 THEN c
    ELSE [c EXCEPT !.aiTimers.missileLaunchTimer = TRUE,
                   !.aiTimeouts = setFrameTimeout(@, "missileLaunch")]

NoAttacker == [type |-> "none", parentType |-> "none"]

Attackers ==
    {NoAttacker,
     [type |-> "gunfire", parentType |-> "helicopter"],
     [type |-> "gunfire", parentType |-> "turret"],
     [type |-> "aimedMissile", parentType |-> "helicopter"]}

maybeRetaliateWithSmartMissile(c, attacker, inRange) ==
    IF gameConfig.tutorialMode THEN c
    ELSE IF gameConfig.bullets
    THEN IF c.heli.energy > missileEnergyThreshold(gameConfig.gameType) THEN c
         ELSE IF attacker = NoAttacker THEN c
         ELSE IF attacker.type # "gunfire" THEN c
         ELSE IF attacker.parentType # "helicopter" THEN c
         ELSE maybeFireMissileAtHelicopter(c, inRange)
    ELSE IF gameConfig.gameType # "extreme" /\ c.heli.ammo > 0 THEN c
         ELSE maybeFireMissileAtHelicopter(c, inRange)

respondToHit(c, attacker, inRange) ==
    IF attacker = NoAttacker THEN c
    ELSE maybeRetaliateWithSmartMissile(
             IF ~c.heli.helicopters /\ attacker.parentType = "helicopter"
             THEN maybeChaseHelicopters(c) ELSE c,
             attacker, inRange)

\* the guard shared by the two drop functions, and its mutant for C20
dropRefusedIgnoresActive(c) == c.heli.parachutes = 0

dropRefused(c) == c.aiTimers.parachutingActiveTimer \/ c.heli.parachutes = 0

dropAllParatroopersAtRandom(c) ==
    IF dropRefused(c) THEN c
    ELSE [c EXCEPT !.aiTimers.parachutingActiveTimer = TRUE,
                   !.aiTimeouts = setFrameTimeout(@, "parachutingStart")]

dropParatroopersAtRandom(c) ==
    IF dropRefused(c) THEN c
    ELSE [c EXCEPT !.aiTimers.parachutingActiveTimer = TRUE,
                   !.aiTimeouts = setFrameTimeout(@, "parachutingStart")]

\* clear: the target is in place and no friendly infantry is on its way;
\* dropAll: super bunker, end bunker, or under half energy or bombs
maybeDropParatroopersNearTarget(c, clear, dropAll) ==
    IF c.aiTimers.paratrooperDropTimer THEN c
    ELSE IF ~clear THEN c
    ELSE LET marked == [c EXCEPT !.aiTimers.paratrooperDropTimer = TRUE,
                                 !.aiTimeouts = setFrameTimeout(@, "paratrooperDrop")]
         IN  IF dropAll THEN dropAllParatroopersAtRandom(marked)
             ELSE dropParatroopersAtRandom(marked)

\* airborne: not landed and above y 300, and the coin toss came up
maybeDecoySmartMissile(c, defendB, fromHelicopter, airborne) ==
    IF ~defendB THEN c
    ELSE LET e == IF fromHelicopter THEN maybeEngageRetaliationMode(c) ELSE c
         IN  IF e.heli.parachutes = 0 THEN e
             ELSE IF ~airborne THEN e
             ELSE dropParatroopersAtRandom(e)

\* inReach: the funds test, the distance test and seekEndBunker all pass
maybeTakeOutEndBunker(c, endBunkers, inReach) ==
    IF ~endBunkers THEN c
    ELSE IF c.heli.parachutes = 0 THEN c
    ELSE IF ~inReach THEN c
    ELSE dropAllParatroopersAtRandom(c)

\* ---- the timeout callbacks
\* the launch callback returning from its sanity check without clearing
\* the throttle
onMissileLaunchKeepsThrottle(c) ==
    IF c.heli.dead \/ opponent.dead THEN c
    ELSE [maybeEngageRetaliationMode(c) EXCEPT
             !.aiTimers.missileTarget = "opponent",
             !.heli.missileLaunching = TRUE,
             !.aiTimeouts = setFrameTimeout(@, "missileLaunchStop")]

onMissileLaunch(c) ==
    IF c.heli.dead \/ opponent.dead
    THEN [c EXCEPT !.aiTimers.missileLaunchTimer = FALSE]
    ELSE [maybeEngageRetaliationMode(c) EXCEPT
             !.aiTimers.missileTarget = "opponent",
             !.heli.missileLaunching = TRUE,
             !.aiTimeouts = setFrameTimeout(@, "missileLaunchStop")]

onMissileLaunchStop(c) ==
    [c EXCEPT !.heli.missileLaunching = FALSE,
              !.aiTimers.missileLaunchTimer = FALSE]

\* the delayed roll forgetting the attack flag
onRespondToHitRollsOnly(c, rngBool) ==
    [c EXCEPT !.heli.helicopters = rngBool,
              !.aiTimers.respondToHitTimer = FALSE]

onRespondToHit(c, rngBool) ==
    [c EXCEPT !.heli.helicopters = c.heli.attackB /\ rngBool,
              !.aiTimers.respondToHitTimer = FALSE]

onRetaliation(c) == [c EXCEPT !.heli.retaliation = FALSE]

onParatrooperDrop(c) == [c EXCEPT !.aiTimers.paratrooperDropTimer = FALSE]

onParachutingStart(c) ==
    [c EXCEPT !.heli.parachuting = TRUE,
              !.aiTimeouts = setFrameTimeout(@, "parachutingStop")]

onParachutingStop(c) ==
    [c EXCEPT !.heli.parachuting = FALSE,
              !.aiTimers.parachutingActiveTimer = FALSE]

onMissileReloading(c) == [c EXCEPT !.heli.missileReloading = FALSE]

\* ---- Helicopter.js: die, respawn, fire
die(c) ==
    IF c.heli.dead THEN c
    ELSE [c EXCEPT !.heli.energy = 0, !.heli.dead = TRUE,
                   !.aiTimeouts =
                       IF gameConfig.tutorialMode THEN @
                       ELSE setFrameTimeout(@, "respawn")]

\* respawn -> reset -> resetAndRespawn -> setRespawning(true)
resetAndRespawn(c) ==
    [c EXCEPT !.heli.energy = c.heli.energyMax,
              !.heli.parachutes = c.heli.maxParachutes,
              !.heli.smartMissiles = c.heli.maxSmartMissiles,
              !.heli.ammo = c.heli.maxAmmo,
              !.heli.missileLaunching = FALSE,
              !.heli.parachuting = FALSE,
              !.heli.respawning = TRUE,
              !.heli.dead = FALSE,
              !.aiTimeouts = setFrameTimeout(@, "respawnComplete")]

respawnComplete(c) == [c EXCEPT !.heli.respawning = FALSE]

\* what the callback of a timeout of this kind does
callback(c, kind, rngBool) ==
    CASE kind = "missileLaunch" -> onMissileLaunch(c)
      [] kind = "missileLaunchStop" -> onMissileLaunchStop(c)
      [] kind = "respondToHit" -> onRespondToHit(c, rngBool)
      [] kind = "retaliation" -> onRetaliation(c)
      [] kind = "paratrooperDrop" -> onParatrooperDrop(c)
      [] kind = "parachutingStart" -> onParachutingStart(c)
      [] kind = "parachutingStop" -> onParachutingStop(c)
      [] kind = "missileReloading" -> onMissileReloading(c)
      [] kind = "respawn" -> resetAndRespawn(c)
      [] kind = "respawnComplete" -> respawnComplete(c)

\* ---- what the last handler was: its name, the deployment it started,
\* whether the paratrooper cooldown was running when it was called, and for
\* a hit whether it was the case in which a retaliation launch is due
NoAiLog == [op |-> "none", kind |-> "none", asked |-> FALSE, cooldown |-> FALSE]

\* the timeouts that nothing throttles (the clearing of the retaliation
\* mode, the completion of a respawn) stay within the bound
Bounded(c) ==
    \A k \in {"retaliation", "respawnComplete"} : c.aiTimeouts[k] <= MaxPending

Commit(c, log) ==
    /\ Bounded(c)
    /\ heli' = c.heli
    /\ aiTimers' = c.aiTimers
    /\ aiTimeouts' = c.aiTimeouts
    /\ aiLog' = log

\* the AI runs for a helicopter that is alive and not respawning
aiRuns == ~heli.dead /\ ~heli.respawning

restOfProgram == <<overlapVars, tweenVars, dispatchVars, ledgerVars, tickVars, queryVars>>

\* ---- Helicopter.js fire(), run each frame for a live helicopter: the firing
\* block (out of ammo, the CPU may retaliate with a smart missile), the
\* missile block and the parachute block.  The throttle between two
\* paratroopers is a delay only and is left out.
fireAmmo(c, firing, inRange) ==
    IF ~firing THEN c
    ELSE IF c.heli.ammo > 0 THEN [c EXCEPT !.heli.ammo = @ - 1]
    ELSE maybeRetaliateWithSmartMissile(c, NoAttacker, inRange)

missileTargetCloaked(c) ==
    c.aiTimers.missileTarget = "opponent" /\ opponent.cloaked

launches(c) ==
    /\ c.heli.missileLaunching /\ c.heli.smartMissiles > 0
    /\ ~c.heli.missileReloading
    /\ c.aiTimers.missileTarget # "null"
    /\ ~missileTargetCloaked(c)

fireMissile(c) ==
    IF ~launches(c) THEN c
    ELSE [c EXCEPT !.heli.smartMissiles = @ - 1,
                   !.heli.missileReloading = TRUE,
                   !.aiTimeouts = setFrameTimeout(@, "missileReloading")]

fireParachute(c) ==
    IF c.heli.parachuting /\ c.heli.parachutes > 0
    THEN [c EXCEPT !.heli.parachutes = @ - 1] ELSE c

HelicopterFire ==
    /\ ~heli.dead
    /\ \E firing \in BOOLEAN, inRange \in BOOLEAN :
       \E c1 \in {fireAmmo(AIState, firing, inRange)} :
       \E c3 \in {fireParachute(fireMissile(c1))} :
          /\ smartMissiles' = IF launches(c1) THEN smartMissiles + 1 ELSE smartMissiles
          /\ smartMissiles' <= MaxActiveMissiles
          /\ Commit(c3, [NoAiLog EXCEPT !.op = "fire"])
    /\ UNCHANGED <<gameConfig, opponent, restOfProgram>>

\* onHit -> respondToHit(attacker), for a helicopter the hit has not killed;
\* helicopters fire gunfire in levels with bullets, aimed missiles otherwise
OnHit ==
    /\ ~heli.dead
    /\ \E attacker \in Attackers, inRange \in BOOLEAN, damage \in {0, 2} :
          /\ heli.energy - damage >= 1
          /\ attacker.parentType = "helicopter" =>
                (attacker.type = "gunfire") = gameConfig.bullets
          /\ \E c0 \in {[AIState EXCEPT !.heli.energy = @ - damage]} :
             \E c1 \in {respondToHit(c0, attacker, inRange)} :
                Commit(c1, [NoAiLog EXCEPT
                    !.op = "onHit",
                    !.asked =
                        /\ attacker = [type |-> "gunfire", parentType |-> "helicopter"]
                        /\ c0.heli.energy <= missileEnergyThreshold(gameConfig.gameType)
                        /\ gameConfig.useMissileB /\ c0.heli.smartMissiles > 0
                        /\ objectInView(opponent, inRange)])
    /\ UNCHANGED <<gameConfig, opponent, smartMissiles, restOfProgram>>

\* the part of one ai() tick that deploys paratroopers: maybeTakeOutEndBunker
\* and maybeDropParatroopersNearTarget, in the order checkLastAndNewTarget
\* calls them
Deployments == {"none", "all", "some"}

started(c, d) == d.aiTimeouts["parachutingStart"] > c.aiTimeouts["parachutingStart"]

AiTick ==
    /\ aiRuns
    /\ \E raid \in BOOLEAN, drop \in Deployments :
       \E c1 \in {maybeTakeOutEndBunker(AIState, TRUE, raid)} :
       \E c2 \in {maybeDropParatroopersNearTarget(c1, drop # "none", drop = "all")} :
          Commit(c2, [NoAiLog EXCEPT
              !.op = "tick",
              !.kind = IF started(AIState, c1) THEN "raid"
                       ELSE IF started(c1, c2) THEN "target" ELSE "none",
              !.cooldown = aiTimers.paratrooperDropTimer])
    /\ UNCHANGED <<gameConfig, opponent, smartMissiles, restOfProgram>>

\* a smart missile has been launched at the helicopter
MissileIncoming ==
    /\ ~heli.dead
    /\ \E defendB \in BOOLEAN, fromHelicopter \in BOOLEAN, airborne \in BOOLEAN :
       \E c1 \in {maybeDecoySmartMissile(AIState, defendB, fromHelicopter, airborne)} :
          Commit(c1, [NoAiLog EXCEPT
              !.op = "missileIncoming",
              !.kind = IF started(AIState, c1) THEN "decoy" ELSE "none",
              !.asked = defendB /\ fromHelicopter /\ gameConfig.killCopterB
                        /\ heli.attackB,
              !.cooldown = aiTimers.paratrooperDropTimer])
    /\ UNCHANGED <<gameConfig, opponent, smartMissiles, restOfProgram>>

\* a pending frame timeout runs its callback; a missile launch is stopped
\* (after 1/FPS ms) before the helicopter has reloaded (after 500 ms)
AIFrameTimeout(kind) ==
    /\ aiTimeouts[kind] > 0
    /\ kind = "missileReloading" => aiTimeouts["missileLaunchStop"] = 0
    /\ \E rngBool \in BOOLEAN :
       \E c0 \in {[AIState EXCEPT !.aiTimeouts[kind] = @ - 1]} :
          Commit(callback(c0, kind, rngBool), NoAiLog)
    /\ UNCHANGED <<gameConfig, opponent, smartMissiles, restOfProgram>>

HelicopterDies ==
    /\ ~heli.dead
    /\ Commit(die(AIState), NoAiLog)
    /\ UNCHANGED <<gameConfig, opponent, smartMissiles, restOfProgram>>

\* ------------------------------------------------------------ one ai() tick
\* cpu is the helicopter's data, scene what the tick finds around it: the
\* level, the target objectInView hands to checkLastAndNewTarget, and the
\* units it looks at (t a tank, h the opposing helicopter, p a threat), each
\* with the outcome of the geometric tests made on it (inRange: the
\* distance tests of maybeFireAtTarget or checkThreats pass; below: aligned
\* on x and below the helicopter, no friend in napalm reach).
B2N(b) == IF b THEN 1 ELSE 0

\* the sum taken without the fuel test (the mutant of C19)
needsRefitBySumOnly(d) ==
    LET needsFuel == d.fuel < d.needsFuel
        needsAmmo == IF scene.bullets THEN d.ammo < 6 ELSE d.ammo = 0
        needsBombs == d.bombs = 0
        needsRepair == d.energy < 5
    IN  B2N(needsFuel) + B2N(needsAmmo) + B2N(needsBombs) + B2N(needsRepair)
            + B2N(scene.levelNumber = 1 \/ scene.levelNumber = 2) >= 2

needsRefit(d) ==
    LET needsFuel == d.fuel < d.needsFuel
        needsAmmo == IF scene.bullets THEN d.ammo < 6 ELSE d.ammo = 0
        needsBombs == d.bombs = 0
        needsRepair == d.energy < 5
    IN  \/ needsFuel
        \/ B2N(needsAmmo) + B2N(needsBombs) + B2N(needsRepair)
            + B2N(scene.levelNumber = 1 \/ scene.levelNumber = 2) >= 2

\* seekLandingPad is steering code; what the tick keeps of it is the wish
landingPadCheck(d) ==
    IF needsRefit(d) /\ ~d.landed /\ ~d.repairing
    THEN [d EXCEPT !.wantsLandingPad = TRUE]
    ELSE IF /\ d.onLandingPad /\ (d.repairing \/ ~d.repairComplete)
            /\ (d.vX # 0 \/ d.vY # 0)
    THEN [d EXCEPT !.vX = 0, !.vY = 0]
    ELSE d

maybeFireAtTarget(d, id) ==
    IF id = "none" THEN d
    ELSE IF ~scene.units[id].inRange THEN d
    ELSE [d EXCEPT !.votes.ammo = @ + 1, !.ammoTargets = Append(@, id)]

maybeBombTarget(d, id) ==
    IF ~scene.scatterBombB THEN d
    ELSE IF d.bombs = 0 THEN d
    ELSE IF id = "none" THEN d
    ELSE IF scene.units[id].dead \/ scene.units[id].cloaked THEN d
    ELSE IF ~scene.units[id].below THEN d
    ELSE [d EXCEPT !.votes.bomb = @ + 1, !.bombTargets = Append(@, id)]

\* the opposing helicopters other than the target, as the attackB scan
\* walks them
scanHelicopter(d, target) ==
    IF ~d.attackB \/ target = "h" THEN d
    ELSE IF ~scene.bullets \/ scene.killCopterB
    THEN maybeFireAtTarget(maybeBombTarget(d, "h"), "h")
    ELSE maybeBombTarget(d, "h")

checkLastAndNewTarget(d) ==
    IF d.landed THEN d
    ELSE LET target == IF d.wantsLandingPad THEN "none" ELSE scene.target
         IN  scanHelicopter(maybeBombTarget(maybeFireAtTarget(d, target), target),
                            target)

checkThreats(d) ==
    IF ~scene.units["p"].inRange THEN d
    ELSE [d EXCEPT !.votes.ammo = @ + 1, !.ammoTargets = Append(@, "p")]

\* Helicopter.js, for a CPU helicopter off the network
setFiring(d, state) ==
    IF ~d.onLandingPad \/ ~state THEN [d EXCEPT !.firing = state]
    ELSE [d EXCEPT !.firing = FALSE]

setBombing(d, state) ==
    IF d.onLandingPad THEN [d EXCEPT !.bombing = FALSE]
    ELSE [d EXCEPT !.bombing = state]

resolveBombing(d) ==
    IF ~d.bombing /\ d.votes.bomb > 0 THEN setBombing(d, TRUE)
    ELSE IF d.bombing /\ d.votes.bomb = 0 THEN setBombing(d, FALSE)
    ELSE d

\* the intent left as it is when the votes are gone (the mutant of C17)
resolveFiringNeverOff(d) ==
    IF ~d.firing /\ d.votes.ammo > 0 THEN setFiring(d, TRUE) ELSE d

resolveFiring(d) ==
    IF ~d.firing /\ d.votes.ammo > 0 THEN setFiring(d, TRUE)
    ELSE IF d.firing /\ d.votes.ammo = 0 THEN setFiring(d, FALSE)
    ELSE d

maybeFireOrBomb(d) == resolveFiring(resolveBombing(d))

\* vY left as steered (the mutant of C18)
throttleVelocityXOnly(d) ==
    LET max == (IF d.useClippedSpeed /\ ~d.retaliation
                THEN d.vXMaxClipped ELSE d.vXMax) \div 2
    IN  [d EXCEPT !.vX = Max(-max, Min(max, @))]

throttleVelocity(d) ==
    LET max == (IF d.useClippedSpeed /\ ~d.retaliation
                THEN d.vXMaxClipped ELSE d.vXMax) \div 2
    IN  [d EXCEPT !.vX = Max(-max, Min(max, @)), !.vY = Max(-max, Min(max, @))]

\* maybeSteerTowardTarget clips the speed when it goes for a helicopter
\* (clip: no building in the way, the target not landed); the tick has a
\* target only off the ground and when not heading for the landing pad.
\* wander, checkVerticalRange and applyForces leave some velocity
steer(d, clip, vX, vY) ==
    [d EXCEPT !.useClippedSpeed = /\ clip /\ scene.target = "h"
                                  /\ ~d.landed /\ ~d.wantsLandingPad,
              !.vX = vX, !.vY = vY]

aiReturnsEarly(d) == d.dead \/ d.respawning \/ d.fuel <= 0

ai(d, clip, vX, vY) ==
    IF aiReturnsEarly(d) THEN d
    ELSE LET fresh == [d EXCEPT !.votes = [ammo |-> 0, bomb |-> 0],
                                !.ammoTargets = <<>>, !.bombTargets = <<>>,
                                !.wantsLandingPad = FALSE,
                                !.useClippedSpeed = FALSE]
             aimed == checkLastAndNewTarget(landingPadCheck(fresh))
             armed == maybeFireOrBomb(checkThreats(steer(aimed, clip, vX, vY)))
         IN  throttleVelocity(armed)

\* velocities <<vX, vY>> on both sides of the two limits
Velocities == {<<0, 0>>, <<7, -2>>, <<-7, 7>>, <<4, -7>>}

NoTick == [ran |-> FALSE, needsRefit |-> FALSE, vX |-> 0, vY |-> 0]

\* animate() of a CPU helicopter: data.ai.animate() is called unless the
\* helicopter sits on its pad with a repair in progress
repairInProgress(d) == d.repairing /\ ~d.repairComplete

Animate ==
    /\ \E clip \in BOOLEAN, v \in Velocities :
       \E ran \in {/\ ~cpu.onLandingPad \/ ~repairInProgress(cpu)
                   /\ ~aiReturnsEarly(cpu)} :
       \E d \in {IF ~cpu.onLandingPad \/ ~repairInProgress(cpu)
                 THEN ai(cpu, clip, v[1], v[2]) ELSE cpu} :
          /\ cpu' = d
          /\ tickLog' = [ran |-> ran,
                         needsRefit |-> ran /\ needsRefit(cpu),
                         vX |-> IF ran THEN v[1] ELSE 0,
                         vY |-> IF ran THEN v[2] ELSE 0]
    /\ UNCHANGED <<scene, overlapVars, tweenVars, dispatchVars, ledgerVars, aiVars, queryVars>>

\* ---- the helicopters and scenes the ticks start from
SceneUnit(type, dead, cloaked, inRange, below) ==
    [type |-> type, dead |-> dead, cloaked |-> cloaked, inRange |-> inRange,
     below |-> below]

Absent(type) == SceneUnit(type, FALSE, FALSE, FALSE, FALSE)

NewCpu ==
    [dead |-> FALSE, respawning |-> FALSE, fuel |-> 30, needsFuel |-> 25,
     ammo |-> 6, bombs |-> 1, energy |-> 5,
     landed |-> FALSE, repairing |-> FALSE, onLandingPad |-> FALSE,
     repairComplete |-> FALSE, firing |-> FALSE, bombing |-> FALSE,
     vX |-> 0, vY |-> 0, vXMax |-> 12, vXMaxClipped |-> 12,
     useClippedSpeed |-> FALSE, retaliation |-> FALSE, attackB |-> FALSE,
     wantsLandingPad |-> FALSE, votes |-> [ammo |-> 0, bomb |-> 0],
     ammoTargets |-> <<>>, bombTargets |-> <<>>]

RestScene ==
    [bullets |-> TRUE, levelNumber |-> 3, scatterBombB |-> TRUE,
     killCopterB |-> FALSE, target |-> "none",
     units |-> [id \in {"t", "h", "p"} |->
                   Absent(IF id = "t" THEN "tank"
                          ELSE IF id = "h" THEN "helicopter"
                          ELSE "parachuteInfantry")]]

\* ---- Helicopter.js animate(): the periodic re-roll of the targeting
\* flags, for a CPU helicopter that is not respawning; attackB is
\* !!(game.iQuickRandom() & 0x7)
targetingReroll(c, attackB) ==
    [c EXCEPT !.heli.helicopters =
                  (gameConfig.killCopterB /\ attackB) \/ gameConfig.tutorialMode,
              !.heli.attackB = attackB]

TargetingReroll ==
    /\ ~heli.respawning
    /\ \E attackB \in BOOLEAN :
          Commit(targetingReroll(AIState, attackB), [NoAiLog EXCEPT !.op = "reroll"])
    /\ UNCHANGED <<gameConfig, opponent, smartMissiles, restOfProgram>>

\* onKill(targetID) of a CPU helicopter: stop chasing helicopters, since
\* we got one
onKill(c, targetType) ==
    IF targetType # "helicopter" THEN c
    ELSE IF gameConfig.gameType \in {"tutorial", "easy"}
    THEN [c EXCEPT !.heli.helicopters = FALSE]
    ELSE c

OnKill ==
    /\ \E targetType \in {"helicopter", "tank"} :
          Commit(onKill(AIState, targetType), [NoAiLog EXCEPT !.op = "onKill"])
    /\ UNCHANGED <<gameConfig, opponent, smartMissiles, restOfProgram>>

\* ---- the rest of the battlefield
OpponentChanges ==
    /\ \E dead \in BOOLEAN, cloaked \in BOOLEAN :
          /\ [dead |-> dead, cloaked |-> cloaked] # opponent
          /\ dead => ~cloaked
          /\ opponent' = [dead |-> dead, cloaked |-> cloaked]
    /\ aiLog' = NoAiLog
    /\ UNCHANGED <<gameConfig, heli, aiTimers, aiTimeouts, smartMissiles,
                   restOfProgram>>

\* another unit launches a smart missile at the opponent, or one ends
OtherMissile ==
    /\ \E n \in {smartMissiles - 1, smartMissiles + 1} :
          /\ n \in 0..MaxActiveMissiles
          /\ n > smartMissiles => ~opponent.dead /\ ~opponent.cloaked
          /\ smartMissiles' = n
    /\ aiLog' = NoAiLog
    /\ UNCHANGED <<gameConfig, heli, opponent, aiTimers, aiTimeouts,
                   restOfProgram>>

GameTypes == {"easy", "extreme"}

\* both ends of the difficulty scale with bullets, a level with aimed
\* missiles, levels
\* without missiles, and the tutorial
GameConfigs ==
    {[gameType |-> g, bullets |-> TRUE, killCopterB |-> TRUE, useMissileB |-> TRUE,
      tutorialMode |-> FALSE] : g \in GameTypes}
    \cup {[gameType |-> "easy", bullets |-> FALSE, killCopterB |-> TRUE,
           useMissileB |-> TRUE, tutorialMode |-> FALSE]}
    \cup {[gameType |-> "easy", bullets |-> TRUE, killCopterB |-> k,
           useMissileB |-> FALSE, tutorialMode |-> FALSE] : k \in BOOLEAN}
    \cup {[gameType |-> "easy", bullets |-> TRUE, killCopterB |-> FALSE,
           useMissileB |-> TRUE, tutorialMode |-> TRUE]}

\* a helicopter as it takes off, with its inventory scaled down
NewHeli(attackB) ==
    [dead |-> FALSE, respawning |-> FALSE,
     energy |-> 3, energyMax |-> 3, ammo |-> 1, maxAmmo |-> 1,
     smartMissiles |-> 2, maxSmartMissiles |-> 2,
     parachutes |-> 1, maxParachutes |-> 1,
     missileLaunching |-> FALSE, missileReloading |-> FALSE, parachuting |-> FALSE,
     helicopters |-> FALSE, attackB |-> attackB, retaliation |-> FALSE]

RestConfig == CHOOSE g \in GameConfigs : g.tutorialMode
RestUnit == [dead |-> FALSE, cloaked |-> FALSE]

RestAI ==
    /\ gameConfig = RestConfig /\ heli = NewHeli(FALSE)
    /\ opponent = RestUnit
    /\ aiTimers = NoTimers /\ aiTimeouts = NoTimeouts
    /\ smartMissiles = 0 /\ aiLog = NoAiLog

RestTick == cpu = NewCpu /\ scene = RestScene /\ tickLog = NoTick

RestPilot == RestAI /\ RestTick

\* ------------------------------------- collisionTest, nearbyTest and zones
\* member is the unit's data.frontZone, data.rearZone ("null" or a zone
\* index, written z0, z1, ...) and data.multiZone.  objectsByZone maps the zone indices that have
\* a bucket to, for each item of the collision, whether the bucket holds
\* targets of the item's group and type.  A call is recorded as the zones
\* and items collisionCheckObject was called on, in order, and whether the
\* call returned or threw.
ZoneItems == {"tank", "balloon"}

noBucket(zone) == zone \notin DOMAIN objectsByZone

\* collisionCheckZone(collision, zone): zones.objectsByZone[zone] is read
\* without a test, then indexed for each item
collisionCheckZone(items, zone) ==
    IF items = <<>> THEN [threw |-> FALSE, dispatched |-> <<>>]
    ELSE IF noBucket(zone) THEN [threw |-> TRUE, dispatched |-> <<>>]
    ELSE [threw |-> FALSE,
          dispatched |-> SelectSeq([i \in 1..Len(items) |-> <<zone, items[i]>>],
                                   LAMBDA e : objectsByZone[zone][e[2]])]

collisionTest(items, m) ==
    IF m.frontZone = "null" \/ m.rearZone = "null"
    THEN [skipped |-> TRUE, threw |-> FALSE, dispatched |-> <<>>]
    ELSE LET front == collisionCheckZone(items, m.frontZone)
         IN  IF front.threw \/ ~m.multiZone
             THEN [skipped |-> FALSE, threw |-> front.threw,
                   dispatched |-> front.dispatched]
             ELSE LET rear == collisionCheckZone(items, m.rearZone)
                  IN  [skipped |-> FALSE, threw |-> rear.threw,
                       dispatched |-> front.dispatched \o rear.dispatched]

\* checkNearbyItems(nearby, zone); hits is the set of targets lists on which
\* collisionCheckObject finds a hit
checkNearbyItems(items, zone, hits, hitAll) ==
    IF noBucket(zone) THEN [foundHit |-> FALSE, dispatched |-> <<>>]
    ELSE LET all == SelectSeq([i \in 1..Len(items) |-> <<zone, items[i]>>],
                              LAMBDA e : objectsByZone[zone][e[2]])
             firstHit == IF \E i \in 1..Len(all) : all[i] \in hits
                         THEN CHOOSE i \in 1..Len(all) :
                                 /\ all[i] \in hits
                                 /\ \A j \in 1..(i - 1) : all[j] \notin hits
                         ELSE 0
         IN  [foundHit |-> firstHit > 0,
              dispatched |-> IF firstHit > 0 /\ ~hitAll
                             THEN SubSeq(all, 1, firstHit) ELSE all]

nearbyTest(items, m, hits, hitAll) ==
    IF m.frontZone = "null"
    THEN [skipped |-> TRUE, threw |-> FALSE, dispatched |-> <<>>]
    ELSE LET front == checkNearbyItems(items, m.frontZone, hits, hitAll)
         IN  IF (~front.foundHit \/ hitAll) /\ m.multiZone
             THEN [skipped |-> FALSE, threw |-> FALSE,
                   dispatched |-> front.dispatched \o
                       checkNearbyItems(items, m.rearZone, hits, hitAll).dispatched]
             ELSE [skipped |-> FALSE, threw |-> FALSE,
                   dispatched |-> front.dispatched]

NoZoneLog == [fn |-> "none", items |-> <<>>, skipped |-> FALSE, threw |-> FALSE,
              dispatched |-> <<>>]

ItemLists == {<<>>, <<"tank">>, <<"tank", "balloon">>}

CallCollisionTest ==
    /\ zoneLog.fn = "none"
    /\ \E items \in ItemLists :
       \E r \in {collisionTest(items, member)} :
          zoneLog' = [fn |-> "collisionTest", items |-> items, skipped |-> r.skipped,
                      threw |-> r.threw, dispatched |-> r.dispatched]
    /\ UNCHANGED <<member, objectsByZone, overlapVars, tweenVars, dispatchVars,
                   ledgerVars, pilotVars, locatorVars>>

CallNearbyTest ==
    /\ zoneLog.fn = "none"
    /\ \E items \in ItemLists, hitAll \in BOOLEAN,
          hits \in SUBSET {<<member.frontZone, "tank">>, <<member.rearZone, "balloon">>} :
       \E r \in {nearbyTest(items, member, hits, hitAll)} :
          zoneLog' = [fn |-> "nearbyTest", items |-> items, skipped |-> r.skipped,
                      threw |-> r.threw, dispatched |-> r.dispatched]
    /\ UNCHANGED <<member, objectsByZone, overlapVars, tweenVars, dispatchVars,
                   ledgerVars, pilotVars, locatorVars>>

\* zones z0 and z1 have a bucket, z2 has none
ZoneValues == {"null", "z0", "z1", "z2"}
RestMember == [frontZone |-> "null", rearZone |-> "null", multiZone |-> FALSE]
RestBuckets == [z \in {"z0", "z1"} |-> [i \in ZoneItems |-> FALSE]]
RestZones == member = RestMember /\ objectsByZone = RestBuckets /\ zoneLog = NoZoneLog

\* ------------------------------------------------ objects in view, nearby
\* world.objects maps a type to the ids of game.objects[type], in order;
\* world.data maps an id to the unit's data; world.net is net.active.  The
\* source of a query is at x = 0, y = 0.  A call is made with each of the
\* trigger distances of Requested (<<>>: none passed); found maps each to
\* what the call returns with it.
NET_TRIGGER_DISTANCE == 360

Requested == {<<>>, <<100>>, <<600>>}

\* options.triggerDistance || 512
orDefault(requested) ==
    IF requested = <<>> \/ requested[1] = 0 THEN 512 ELSE requested[1]

\* the faction test of objectsInView; data is the source
factionMatches(data, iData, options) ==
    IF ~options.friendlyOnly /\ options.enemyOnly
    THEN (data.isHostile \/ data.isEnemy # iData.isEnemy) /\ ~iData.isNeutral
    ELSE IF options.friendlyOnly THEN data.isEnemy = iData.isEnemy
    ELSE data.isEnemy # iData.isEnemy \/ iData.isNeutral

\* results.sort by |x - data.x|: a stable insertion of id into a sorted list
RECURSIVE insertByDistance(_, _)
insertByDistance(sorted, id) ==
    IF sorted = <<>> THEN <<id>>
    ELSE IF Abs(world.data[id].x) < Abs(world.data[Head(sorted)].x)
    THEN <<id>> \o sorted
    ELSE <<Head(sorted)>> \o insertByDistance(Tail(sorted), id)

RECURSIVE sortByDistance(_, _)
sortByDistance(ids, sorted) ==
    IF ids = <<>> THEN sorted
    ELSE sortByDistance(SubSeq(ids, 1, Len(ids) - 1),
                        insertByDistance(sorted, ids[Len(ids)]))

\* the items of the requested types, in the order forEach walks them
RECURSIVE itemsOfTypes(_)
itemsOfTypes(itemArray) ==
    IF itemArray = <<>> THEN <<>>
    ELSE world.objects[Head(itemArray)] \o itemsOfTypes(Tail(itemArray))

\* the list without its cloaked test (the mutant of C23)
objectsInViewSeesCloaked(data, options, requested) ==
    LET triggerDistance == IF world.net THEN NET_TRIGGER_DISTANCE
                           ELSE orDefault(requested)
        itemArray == IF options.items = <<>> THEN <<"helicopter">> ELSE options.items
        inView(id) ==
            /\ ~world.data[id].dead /\ ~world.data[id].isInert
            /\ Abs(world.data[id].x - data.x) < triggerDistance
            /\ factionMatches(data, world.data[id], options)
    IN  sortByDistance(SelectSeq(itemsOfTypes(itemArray), inView), <<>>)

objectsInView(data, options, requested) ==
    LET triggerDistance == IF world.net THEN NET_TRIGGER_DISTANCE
                           ELSE orDefault(requested)
        itemArray == IF options.items = <<>> THEN <<"helicopter">> ELSE options.items
        inView(id) ==
            /\ ~world.data[id].dead /\ ~world.data[id].cloaked
            /\ ~world.data[id].isInert
            /\ Abs(world.data[id].x - data.x) < triggerDistance
            /\ factionMatches(data, world.data[id], options)
    IN  sortByDistance(SelectSeq(itemsOfTypes(itemArray), inView), <<>>)

\* objectsInView(data, options)[0] || null
firstOrNull(ids) == IF ids = <<>> THEN "null" ELSE ids[1]

\* the search with the caller's distance in every session (the mutant of C25)
enemyNearbyLocalDistance(data, targetTypes, requested) ==
    LET triggerDistance == IF requested = <<>> THEN 512 ELSE requested[1]
        near(id) ==
            /\ world.data[id].isEnemy # data.isEnemy /\ ~world.data[id].dead
            /\ Abs(world.data[id].x - data.x) < triggerDistance
        matches == SelectSeq(itemsOfTypes(targetTypes), near)
    IN  IF matches = <<>> THEN <<>> ELSE <<matches[1]>>

\* enemyNearby(data, targets, triggerDistance = 512): the first match, in a list
enemyNearby(data, targetTypes, requested) ==
    LET triggerDistance == IF world.net THEN NET_TRIGGER_DISTANCE
                           ELSE IF requested = <<>> THEN 512 ELSE requested[1]
        near(id) ==
            /\ world.data[id].isEnemy # data.isEnemy /\ ~world.data[id].dead
            /\ Abs(world.data[id].x - data.x) < triggerDistance
        matches == SelectSeq(itemsOfTypes(targetTypes), near)
    IN  IF matches = <<>> THEN <<>> ELSE <<matches[1]>>

isPointInCircle(pointX, pointY, circleX, circleY, circleRadius) ==
    (pointX - circleX) * (pointX - circleX) + (pointY - circleY) * (pointY - circleY)
        <= circleRadius * circleRadius

\* enemyHelicopterNearby(data, triggerDistance = 512, useCircleMath), the
\* battle not over
enemyHelicopterNearby(data, requested, useCircleMath) ==
    LET triggerDistance ==
            IF world.net /\ data.type # "van" /\ ~useCircleMath
            THEN NET_TRIGGER_DISTANCE
            ELSE IF requested = <<>> THEN 512 ELSE requested[1]
        near(id) ==
            LET hData == world.data[id]
            IN  /\ ~hData.cloaked \/ data.type = "van"
                /\ ~hData.dead
                /\ data.isEnemy # hData.isEnemy
                /\ hData.fairGame
                /\ IF useCircleMath
                   THEN isPointInCircle(hData.x + hData.halfWidth, hData.y + hData.height,
                                        data.x, data.y, triggerDistance)
                   ELSE Abs(hData.x - data.x) < triggerDistance
        matches == SelectSeq(world.objects["helicopter"], near)
    IN  IF matches = <<>> THEN "null" ELSE matches[1]

NoQuery == [fn |-> "none"]
NoWorld == [net |-> FALSE]

\* the source of a query
SourceData(type, isEnemy, isHostile) ==
    [type |-> type, x |-> 0, y |-> 0, isEnemy |-> isEnemy, isHostile |-> isHostile]

CallObjectsInView ==
    /\ query.fn = "none"
    /\ \E items \in {<<>>, <<"helicopter">>, <<"tank">>, <<"tank", "helicopter">>},
          relation \in {"any", "enemyOnly", "friendlyOnly"},
          isEnemy \in BOOLEAN, isHostile \in BOOLEAN :
          /\ isHostile => relation = "enemyOnly" /\ ~isEnemy
          /\ \E data \in {SourceData("helicopter", isEnemy, isHostile)},
                options \in {[items |-> items, enemyOnly |-> relation = "enemyOnly",
                              friendlyOnly |-> relation = "friendlyOnly"]} :
                /\ query' = [fn |-> "objectsInView", data |-> data, options |-> options]
                /\ found' = [r \in Requested |->
                                [ids |-> objectsInView(data, options, r),
                                 first |-> firstOrNull(objectsInView(data, options, r))]]
    /\ UNCHANGED <<world, overlapVars, tweenVars, dispatchVars, ledgerVars, pilotVars,
                   zoneVars>>

CallEnemyNearby ==
    /\ query.fn = "none"
    /\ \E targetTypes \in {<<"helicopter">>, <<"tank">>, <<"tank", "helicopter">>},
          isEnemy \in BOOLEAN :
       \E data \in {SourceData("tank", isEnemy, FALSE)} :
          /\ query' = [fn |-> "enemyNearby", data |-> data, targets |-> targetTypes]
          /\ found' = [r \in Requested |->
                          [ids |-> enemyNearby(data, targetTypes, r),
                           first |-> firstOrNull(enemyNearby(data, targetTypes, r))]]
    /\ UNCHANGED <<world, overlapVars, tweenVars, dispatchVars, ledgerVars, pilotVars,
                   zoneVars>>

CallEnemyHelicopterNearby ==
    /\ query.fn = "none"
    /\ \E type \in {"turret", "van"}, isEnemy \in BOOLEAN, useCircleMath \in BOOLEAN :
       \E data \in {SourceData(type, isEnemy, FALSE)} :
          /\ query' = [fn |-> "enemyHelicopterNearby", data |-> data,
                       useCircleMath |-> useCircleMath]
          /\ found' = [r \in Requested |->
                          [ids |-> <<>>,
                           first |-> enemyHelicopterNearby(data, r, useCircleMath)]]
    /\ UNCHANGED <<world, overlapVars, tweenVars, dispatchVars, ledgerVars, pilotVars,
                   zoneVars>>

\* a unit of the world
ViewUnit(type, x, isEnemy, status) ==
    [type |-> type, x |-> x, y |-> 0, height |-> 15, halfWidth |-> 24,
     isEnemy |-> isEnemy, dead |-> status = "dead", cloaked |-> status = "cloaked",
     isInert |-> status = "inert", isNeutral |-> status = "neutral",
     fairGame |-> status # "grounded"]

\* ------------------------------------------------------- nearest object
isFacingTarget(t, s) ==
    LET tLeft == t.x + t.width < s.x
    IN  IF s.isEnemy
        THEN ~(tLeft /\ s.flipped) /\ ~(~tLeft /\ ~s.flipped)
        ELSE ~(tLeft /\ ~s.flipped) /\ ~(~tLeft /\ s.flipped)

\* Math.abs(Math.abs(a) - Math.abs(b))
distance(a, b) == Abs(Abs(a) - Abs(b))

\* the body of the loop over a type's objects: whether the unit is pushed
\* on localObjects
isLocalObject(t, s, options) ==
    LET isNearGround == s.y >= 340 /\ ~options.ignoreNearGround
    IN  /\ ~((t.isEnemy = s.isEnemy /\ ~t.hostile) \/ t.dead \/ t.cloaked)
        /\ ~(t.type = "balloon" /\ ~t.hostile)
        /\ ~(t.type = "van" /\ distance(t.x, s.x) > 512 /\ ~t.radarItem)
        /\ ~options.useInFront \/ isFacingTarget(t, s)
        /\ ~(options.ignoreIntersect /\ collisionCheckX(t, s, Zero))
        /\ ~(distance(t.x, s.x) > 3072)
        /\ ~(isNearGround /\ distance(t.y, s.y) > 40)

\* the loop that lets dead units through (the mutant of C24)
isLocalObjectDeadOrAlive(t, s, options) ==
    LET isNearGround == s.y >= 340 /\ ~options.ignoreNearGround
    IN  /\ ~((t.isEnemy = s.isEnemy /\ ~t.hostile) \/ t.cloaked)
        /\ ~(t.type = "balloon" /\ ~t.hostile)
        /\ ~(t.type = "van" /\ distance(t.x, s.x) > 512 /\ ~t.radarItem)
        /\ ~options.useInFront \/ isFacingTarget(t, s)
        /\ ~(options.ignoreIntersect /\ collisionCheckX(t, s, Zero))
        /\ ~(distance(t.x, s.x) > 3072)
        /\ ~(isNearGround /\ distance(t.y, s.y) > 40)

\* the types of the default items, in the order of the type string, that
\* have objects in the world
NearestItems == <<"tank", "helicopter", "balloon", "superBunker">>

localObjectsWith(pushed(_, _, _), s, options) ==
    LET keep(id) == pushed(world.data[id], s, options)
    IN  SelectSeq(itemsOfTypes(NearestItems), keep)

localObjectsDeadOrAlive(s, options) == localObjectsWith(isLocalObjectDeadOrAlive, s, options)

localObjects(s, options) == localObjectsWith(isLocalObject, s, options)

\* totalDistance is the square root of this sum; the sort compares
\* totalDistance, whose order is the order of the sum
totalDistanceSquared(id, s) ==
    distance(world.data[id].x, s.x) * distance(world.data[id].x, s.x)
        + distance(world.data[id].y, s.y) * distance(world.data[id].y, s.y)

RECURSIVE insertByTotalDistance(_, _, _)
insertByTotalDistance(sorted, id, s) ==
    IF sorted = <<>> THEN <<id>>
    ELSE IF totalDistanceSquared(id, s) < totalDistanceSquared(Head(sorted), s)
    THEN <<id>> \o sorted
    ELSE <<Head(sorted)>> \o insertByTotalDistance(Tail(sorted), id, s)

\* localObjects.sort(utils.array.compare('totalDistance'))
RECURSIVE sortByTotalDistance(_, _, _)
sortByTotalDistance(ids, sorted, s) ==
    IF ids = <<>> THEN sorted
    ELSE sortByTotalDistance(SubSeq(ids, 1, Len(ids) - 1),
                             insertByTotalDistance(sorted, ids[Len(ids)], s), s)

reverse(seq) == [i \in 1..Len(seq) |-> seq[Len(seq) + 1 - i]]

\* the ranking without the reversal (the mutant of C33)
rankedNearestFirst(s, options) ==
    sortByTotalDistance(localObjects(s, options), <<>>, s)

\* localObjects once sorted, and reversed for an enemy helicopter
ranked(s, options) ==
    LET sorted == sortByTotalDistance(localObjects(s, options), <<>>, s)
    IN  IF s.type = "helicopter" /\ s.isEnemy THEN reverse(sorted) ELSE sorted

\* what a query returns: null, undefined, one id, or a list of ids
Returned(kind, ids) == [kind |-> kind, ids |-> ids]

\* the end of the function without the shift (the mutant of C22)
pickNearestKeepsBlocker(list, s, options) ==
    IF list = <<>>
    THEN IF ~options.getAll THEN Returned("null", <<>>) ELSE Returned("list", <<>>)
    ELSE IF /\ s.type = "helicopter"
            /\ world.data[list[1]].type = "superBunker"
            /\ (Len(list) = 1 \/ world.data[list[2]].bottomAligned)
    THEN Returned("undefined", <<>>)
    ELSE IF options.getAll THEN Returned("list", list)
    ELSE Returned("id", <<list[1]>>)

\* the end of the function, from the ranked list on
pickNearest(list, s, options) ==
    IF list = <<>>
    THEN IF ~options.getAll THEN Returned("null", <<>>) ELSE Returned("list", <<>>)
    ELSE IF /\ s.type = "helicopter"
            /\ world.data[list[1]].type = "superBunker"
            /\ (Len(list) = 1 \/ world.data[list[2]].bottomAligned)
    THEN Returned("undefined", <<>>)
    ELSE LET kept == IF world.data[list[1]].type = "superBunker"
                     THEN Tail(list) ELSE list
         IN  IF options.getAll THEN Returned("list", kept)
             ELSE IF kept = <<>> THEN Returned("undefined", <<>>)
             ELSE Returned("id", <<kept[1]>>)

getNearestObject(s, options) == pickNearest(ranked(s, options), s, options)

\* the options a caller passes, one at a time
NearestOptions ==
    {[getAll |-> g, useInFront |-> o = "useInFront",
      ignoreIntersect |-> o = "ignoreIntersect",
      ignoreNearGround |-> o = "ignoreNearGround"] :
        g \in BOOLEAN,
        o \in {"none", "useInFront", "ignoreIntersect", "ignoreNearGround"}}

CallGetNearestObject ==
    /\ query.fn = "none"
    /\ \E type \in {"helicopter", "smartMissile"}, isEnemy \in BOOLEAN,
          y \in {330, 340}, flipped \in BOOLEAN, options \in NearestOptions :
          /\ flipped => options.useInFront
          /\ \E s \in {[type |-> type, x |-> 1000, y |-> y, width |-> 48, q |-> 1,
                        isEnemy |-> isEnemy, flipped |-> flipped]} :
                /\ query' = [fn |-> "getNearestObject", data |-> s, options |-> options]
                /\ found' = getNearestObject(s, options)
    /\ UNCHANGED <<world, overlapVars, tweenVars, dispatchVars, ledgerVars, pilotVars,
                   zoneVars>>

\* a unit the nearest-object search may meet
NearUnit(type, x, y, width, bottomAligned, isEnemy, hostile, status) ==
    [type |-> type, x |-> x, y |-> y, width |-> width, q |-> 1,
     bottomAligned |-> bottomAligned, isEnemy |-> isEnemy, hostile |-> hostile,
     dead |-> status = "dead", cloaked |-> status = "cloaked", radarItem |-> TRUE]

\* ------------------------------------------------------- seeded streams
\* A seed is the random number it started from (origin: the index of that
\* number in defaultSeeds) and the number of times 0x6d2b79f5 was added to
\* it.  The number rng returns is a function of the seed after the addition,
\* times `number`: it is recorded as that seed and that factor.
MaxDraws == 3

Seed(origin, adds) == [origin |-> origin, adds |-> adds]

advance(seedValue) == Seed(seedValue.origin, seedValue.adds + 1)

\* the seeds after setDefaultSeed / setSeedsByType: every type starts from
\* defaultSeed = defaultSeeds[0], and so does seed
FreshSeeds ==
    [seedsByType |-> [helicopter |-> Seed(0, 0), tank |-> Seed(0, 0)],
     defaultSeeds |-> [i \in 0..2 |-> Seed(i, 0)],
     seed |-> Seed(0, 0),
     drawn |-> 0]

\* rng(number, type, seedOffset): the number returned and the seeds after the
\* call; type "" when none is passed, seedOffset <<>> when none is passed.
\* Every type that calls has its entry in seedsByType, and the starting
\* numbers are not zero, so that an entry is never falsy.
rng(number, type, seedOffset, seeds) ==
    IF type # ""
    THEN [value |-> [t |-> advance(seeds.seedsByType[type]), times |-> number],
          seeds |-> [seeds EXCEPT !.seedsByType[type] = advance(@)]]
    ELSE IF seedOffset # <<>> /\ seedOffset[1] >= 0
            /\ seedOffset[1] \in DOMAIN seeds.defaultSeeds
    THEN [value |-> [t |-> advance(seeds.defaultSeeds[seedOffset[1]]), times |-> number],
          seeds |-> [seeds EXCEPT !.defaultSeeds[seedOffset[1]] = advance(@)]]
    ELSE [value |-> [t |-> advance(seeds.seed), times |-> number],
          seeds |-> [seeds EXCEPT !.seed = advance(@)]]

\* aiRNG(exports, number) of the helicopter whose id ends in _aiSeedOffset
aiRNG(aiSeedOffset, number, seeds) == rng(number, "helicopter", <<aiSeedOffset>>, seeds)

\* the aiSeedOffset of the helicopters that draw
Helis == {1, 2}

\* a helicopter's AI draws a number
CallAiRNG ==
    /\ query.fn \in {"none", "aiRNG", "rng"}
    /\ world.drawn < MaxDraws
    /\ \E h \in Helis, number \in {1, 2} :
       \E r \in {aiRNG(h, number, world)} :
          /\ world' = [r.seeds EXCEPT !.drawn = @ + 1]
          /\ query' = [fn |-> "aiRNG", aiSeedOffset |-> h, number |-> number]
          /\ found' = [found EXCEPT ![h] = Append(@, r.value)]
    /\ UNCHANGED <<overlapVars, tweenVars, dispatchVars, ledgerVars, pilotVars, zoneVars>>

\* any other caller of rng: a tank, or a call without a type, with or
\* without a seed offset
CallRng ==
    /\ query.fn \in {"none", "aiRNG", "rng"}
    /\ world.drawn < MaxDraws
    /\ \E call \in {<<"tank", <<>>>>, <<"", <<>>>>, <<"", <<1>>>>} :
       \E r \in {rng(1, call[1], call[2], world)} :
          /\ world' = [r.seeds EXCEPT !.drawn = @ + 1]
          /\ query' = [fn |-> "rng", type |-> call[1], seedOffset |-> call[2]]
          /\ found' = found
    /\ UNCHANGED <<overlapVars, tweenVars, dispatchVars, ledgerVars, pilotVars, zoneVars>>

\* ------------------------------------------------------------ getTypes
\* A type string is the sequence of its words and of the delimiter characters
\* between them; no two words are adjacent.
Delimiters == {" ", ",", "|"}

\* typeString.replace(/[\s|,]+/g, ' '): every run of delimiters becomes one space
RECURSIVE normalizeDelimiters(_)
normalizeDelimiters(chars) ==
    IF chars = <<>> THEN <<>>
    ELSE IF Head(chars) \in Delimiters
    THEN IF Len(chars) >= 2 /\ chars[2] \in Delimiters
         THEN normalizeDelimiters(Tail(chars))
         ELSE <<" ">> \o normalizeDelimiters(Tail(chars))
    ELSE <<Head(chars)>> \o normalizeDelimiters(Tail(chars))

\* .split(' '): the words between the spaces, empty where there is none
RECURSIVE splitOnSpace(_, _)
splitOnSpace(chars, current) ==
    IF chars = <<>> THEN <<current>>
    ELSE IF Head(chars) = " "
    THEN <<current>> \o splitOnSpace(Tail(chars), "")
    ELSE splitOnSpace(Tail(chars), Head(chars))

parseTypeString(typeString) ==
    IF ~typeString.isString THEN <<>>
    ELSE splitOnSpace(normalizeDelimiters(typeString.chars), "")

\* TYPES[key]: the camelCase keys name the dash-case types
TYPES(key) ==
    CASE key \in {"tank", "van", "helicopter"} -> key
      [] key = "missileLauncher" -> "missile-launcher"
      [] OTHER -> "undefined"

\* item.indexOf(':') !== -1 and item.split(':'), for the words of the model
hasColon(item) == item \in {"tank:friendly", "van:enemy", "bogus:enemy", "tank:bogus"}

typeAndGroup(item) ==
    CASE item = "tank:friendly" -> <<"tank", "friendly">>
      [] item = "van:enemy" -> <<"van", "enemy">>
      [] item = "bogus:enemy" -> <<"bogus", "enemy">>
      [] item = "tank:bogus" -> <<"tank", "bogus">>

enemyGroupMap(group) ==
    CASE group = "friendly" -> "enemy"
      [] group = "enemy" -> "friendly"
      [] OTHER -> "undefined"

determineGroup(group, exports) ==
    IF group = "all" THEN group
    ELSE IF ~exports.present THEN "undefined"
    ELSE IF exports.isEnemy \/ exports.hostile THEN enemyGroupMap(group)
    ELSE group

\* getTypes(typeString, options); options.group "" when none is given
getTypes(typeString, options) ==
    IF ~typeString.isString THEN Returned("list", <<>>)
    ELSE LET group0 == IF options.group = "" THEN "enemy" ELSE options.group
             group == IF group0 # "all" THEN determineGroup(group0, options.exports)
                      ELSE group0
             parsed == parseTypeString(typeString)
         IN  Returned("list",
                [i \in 1..Len(parsed) |->
                    IF hasColon(parsed[i])
                    THEN [type |-> TYPES(typeAndGroup(parsed[i])[1]),
                          group |-> determineGroup(typeAndGroup(parsed[i])[2],
                                                   options.exports)]
                    ELSE [type |-> TYPES(parsed[i]), group |-> group]])

Words == {"tank", "missileLauncher", "bogus", "tank:friendly", "van:enemy",
          "bogus:enemy", "tank:bogus"}

\* one word, or two words with delimiters between and maybe before them; or
\* something that is no string
TypeStrings ==
    {[isString |-> TRUE, chars |-> <<w>>] : w \in Words}
        \cup {[isString |-> TRUE, chars |-> lead \o <<w1>> \o sep \o <<w2>>] :
                lead \in {<<>>, <<" ">>}, w1 \in Words,
                sep \in {<<",">>, <<",", " ">>, <<" ", "|", " ">>},
                w2 \in {"tank", "bogus"}}
        \cup {[isString |-> FALSE, chars |-> <<>>]}

\* options.exports: none, a friendly unit, an enemy unit, a hostile one
Exporters ==
    {[present |-> FALSE, isEnemy |-> FALSE, hostile |-> FALSE],
     [present |-> TRUE, isEnemy |-> FALSE, hostile |-> FALSE],
     [present |-> TRUE, isEnemy |-> TRUE, hostile |-> FALSE],
     [present |-> TRUE, isEnemy |-> FALSE, hostile |-> TRUE]}

CallGetTypes ==
    /\ query.fn = "none"
    /\ \E typeString \in TypeStrings, group \in {"", "enemy", "friendly", "all"},
          exports \in Exporters :
          /\ query' = [fn |-> "getTypes", typeString |-> typeString,
                       options |-> [group |-> group, exports |-> exports]]
          /\ found' = getTypes(typeString, [group |-> group, exports |-> exports])
    /\ UNCHANGED <<world, overlapVars, tweenVars, dispatchVars, ledgerVars, pilotVars,
                   zoneVars>>

\* ------------------------------------------------- the new primary target
\* world.inView maps a type to what objectInView(data, {items: type}) returns
\* for the helicopter: an id, or "null"; world.balloons is what
\* findEnemy(data, balloon) returns; world.scatterBombB and world.bullets are
\* levelConfig.scatterBombB and levelFlags.bullets.
TargetTypes == <<"helicopter", "tank", "bunker", "superBunker", "cloud">>

\* the block of checkLastAndNewTarget that picks newTarget, entered when the
\* helicopter does not want a landing pad; d is the helicopter's data,
\* recapture what maybeRecaptureEndBunker returns
pickNewTarget(d, recapture) ==
    IF recapture THEN [returned |-> TRUE, newTarget |-> "null", target |-> "unchanged"]
    ELSE LET t1 == IF d.targeting.helicopters THEN world.inView["helicopter"] ELSE "null"
             t2 == IF d.targeting.tanks /\ d.bombs > 0 /\ world.scatterBombB
                   THEN world.inView["tank"] ELSE t1
             t3 == IF t2 = "null" /\ d.targeting.bunkers
                   THEN world.inView["bunker"] ELSE t2
             t4 == IF t3 = "null" /\ d.targeting.superBunkers
                   THEN world.inView["superBunker"] ELSE t3
             t5 == IF t4 = "null" /\ d.targeting.clouds
                   THEN world.inView["cloud"] ELSE t4
         IN  [returned |-> FALSE, newTarget |-> t5,
              target |-> IF t5 # "null" THEN t5
                         ELSE IF world.bullets /\ d.ammo > 0 /\ world.balloons # <<>>
                         THEN world.balloons[1]
                         ELSE "unchanged"]

CallCheckNewTarget ==
    /\ query.fn = "none"
    /\ \E helicopters \in BOOLEAN, tanks \in BOOLEAN, bunkers \in BOOLEAN,
          superBunkers \in BOOLEAN, clouds \in BOOLEAN,
          nBombs \in {0, 1}, ammo \in {0, 1}, recapture \in BOOLEAN :
       \E d \in {[targeting |-> [helicopters |-> helicopters, tanks |-> tanks,
                                 bunkers |-> bunkers, superBunkers |-> superBunkers,
                                 clouds |-> clouds],
                  bombs |-> nBombs, ammo |-> ammo]} :
          /\ query' = [fn |-> "checkLastAndNewTarget", data |-> d,
                       recapture |-> recapture]
          /\ found' = pickNewTarget(d, recapture)
    /\ UNCHANGED <<world, overlapVars, tweenVars, dispatchVars, ledgerVars, pilotVars,
                   zoneVars>>

\* ------------------------------------------------ the target of the rates
\* world.data maps a voted target to its data (x, type); the helicopter is at
\* world.x.  d.ammoTargets and d.bombTargets hold the targets in the order
\* the votes were cast.
RECURSIVE insertByX(_, _)
insertByX(sorted, id) ==
    IF sorted = <<>> THEN <<id>>
    ELSE IF world.data[id].x < world.data[Head(sorted)].x THEN <<id>> \o sorted
    ELSE <<Head(sorted)>> \o insertByX(Tail(sorted), id)

\* list.sort(utils.array.compare('x'))
RECURSIVE sortByX(_, _)
sortByX(ids, sorted) ==
    IF ids = <<>> THEN sorted
    ELSE sortByX(SubSeq(ids, 1, Len(ids) - 1), insertByX(sorted, ids[Len(ids)]))

\* targets[0]?.type
typeOfFirst(ids) == IF ids = <<>> THEN "undefined" ELSE world.data[ids[1]].type

\* the end of maybeFireOrBomb, once the intents are resolved: the target of
\* the firing rate, kept as ammoTarget, and the target of the bombing rate
setRates(d) ==
    LET ammoTargets == IF d.firing /\ d.ammo > 0
                       THEN sortByX(d.ammoTargets, <<>>) ELSE d.ammoTargets
        bombTargets == IF d.bombing /\ d.bombs > 0
                       THEN sortByX(d.bombTargets, <<>>) ELSE d.bombTargets
    IN  [firingRateSet |-> d.firing /\ d.ammo > 0,
         ammoTarget |-> IF d.firing /\ d.ammo > 0 THEN firstOrNull(ammoTargets)
                        ELSE d.ammoTarget,
         firingRate |-> typeOfFirst(ammoTargets),
         bombingRateSet |-> d.bombing /\ d.bombs > 0,
         bombTarget |-> firstOrNull(bombTargets),
         bombingRate |-> typeOfFirst(bombTargets)]

\* the lists of distinct targets a tick may have voted for, in any order
VotedLists ==
    {<<>>} \cup {<<a>> : a \in {"a", "b", "c"}}
        \cup {pair \in {"a", "b", "c"} \X {"a", "b", "c"} : pair[1] # pair[2]}
        \cup {<<"a", "b", "c">>, <<"c", "b", "a">>, <<"b", "c", "a">>}

CallSetRates ==
    /\ query.fn = "none"
    /\ \E ammoTargets \in VotedLists, bombTargets \in VotedLists,
          firing \in BOOLEAN, bombing \in BOOLEAN, ammo \in {0, 6}, nBombs \in {0, 1} :
          /\ firing => ammoTargets # <<>>
          /\ bombing => bombTargets # <<>>
          /\ \E d \in {[ammoTargets |-> ammoTargets, bombTargets |-> bombTargets,
                        firing |-> firing, bombing |-> bombing, ammo |-> ammo,
                        bombs |-> nBombs, ammoTarget |-> "null"]} :
                /\ query' = [fn |-> "maybeFireOrBomb", data |-> d]
                /\ found' = setRates(d)
    /\ UNCHANGED <<world, overlapVars, tweenVars, dispatchVars, ledgerVars, pilotVars,
                   zoneVars>>

\* ------------------------------------------------------------- the bomb
\* A dropped bomb "s" falls on the targets of world.units.  world.zones maps
\* "front" and "rear" to the buckets of the bomb's two zones, each a map
\* from a type to the ids registered there, in order; world.flags holds
\* the bomb's hasHitGround, groundCollisionTest and multiZone.  world.hits
\* logs every call of the hit callback: the target, the damage handed to
\* common.hit, whether the bomb was dead when the callback was entered, and
\* the number of the collisionTest pass that made the call.  world.onDie
\* logs every call of options.onDie and world.dieCalls counts the calls of
\* die.  The bomb is no napalm bomb.
BombItems == <<"tank", "helicopter", "van", "infantry">>

\* common.hit(target.data.id, damagePoints, data.id): the target loses the
\* points and dies without energy
commonHit(w, id, points, deadBefore, passNo) ==
    LET energy == Max(0, w.units[id].energy - points)
    IN  [w EXCEPT !.units[id].energy = energy,
                  !.units[id].dead = @ \/ (points > 0 /\ energy = 0),
                  !.hits = Append(@, [id |-> id, points |-> points,
                                      deadBefore |-> deadBefore, pass |-> passNo])]

RECURSIVE bombCollisionTest(_)

\* die without its test of data.dead
dieBombIgnoresDead(w, dieOptions) ==
    IF w.flags.groundCollisionTest THEN [w EXCEPT !.dieCalls = @ + 1]
    ELSE CHOOSE r \in
           {[after EXCEPT !.units["s"].dead = TRUE,
                          !.onDie = Append(@, dieOptions.target)] :
              after \in {IF dieOptions.bottomAlign
                         THEN bombCollisionTest(
                                [w EXCEPT !.units["s"].y = 379 * w.units["s"].q,
                                          !.units["s"].vY = 0,
                                          !.dieCalls = @ + 1,
                                          !.flags.groundCollisionTest = TRUE])
                         ELSE [w EXCEPT !.units["s"].y = @ + w.extraY * w.units["s"].q,
                                        !.dieCalls = @ + 1]}} : TRUE

\* die(exports, dieOptions) of a bomb: dieOptions is [bottomAlign, target],
\* the target <<>> when there is none
dieBomb(w, dieOptions) ==
    IF w.units["s"].dead \/ w.flags.groundCollisionTest
    THEN [w EXCEPT !.dieCalls = @ + 1]
    ELSE CHOOSE r \in
           {\* data.dead = true; ... options.onDie(exports, dieOptions)
            [after EXCEPT !.units["s"].dead = TRUE,
                          !.onDie = Append(@, dieOptions.target)] :
              after \in {IF dieOptions.bottomAlign
                         THEN \* data.y = 380; data.y--; the ground collision test
                              bombCollisionTest(
                                [w EXCEPT !.units["s"].y = 379 * w.units["s"].q,
                                          !.units["s"].vY = 0,
                                          !.dieCalls = @ + 1,
                                          !.flags.groundCollisionTest = TRUE])
                         ELSE \* the spark is moved into the body of the target
                              [w EXCEPT !.units["s"].y = @ + w.extraY * w.units["s"].q,
                                        !.dieCalls = @ + 1]}} : TRUE

\* the damage handed to common.hit for a target of the type
bombDamagePoints(w, id) ==
    IF w.units[id].type = "helicopter" THEN w.units[id].energyMax
    ELSE IF w.flags.hasHitGround THEN 7
    ELSE IF w.units[id].type = "infantry" THEN 0
    ELSE 7

\* bombHitTarget(exports, target), called from collision.options.hit
bombHitTarget(w, id, passNo) ==
    CHOOSE r \in
      {commonHit(after, id, bombDamagePoints(after, id), w.units["s"].dead, passNo) :
         after \in {IF w.units[id].type = "infantry" THEN w
                    ELSE dieBomb(w, [bottomAlign |-> w.units[id].type = "van",
                                 target |-> <<id>>])}} : TRUE

\* the loop of collisionCheckObject over the bucket ids, from index i on,
\* with the options of a bomb (checkTweens, a hit callback, no look-ahead)
RECURSIVE bombScanTargets(_, _, _, _)
bombScanTargets(w, ids, i, passNo) ==
    IF i > Len(ids) THEN w
    ELSE CHOOSE r \in
           {bombScanTargets(after, ids, i + 1, passNo) :
              after \in
                {IF ~eligible(w.units["s"], w.units[ids[i]], FALSE) THEN w
                 ELSE CHOOSE h \in
                        {IF ~test.hit THEN w
                         ELSE bombHitTarget([w EXCEPT !.units["s"] = test.sData],
                                            ids[i], passNo) :
                           test \in {overlapTest(w.units["s"], w.units[ids[i]],
                                                 [checkTweens |-> TRUE,
                                                  checkTweensRepositionOnHit |-> TRUE],
                                                 Zero)}} : TRUE}} : TRUE

\* collisionCheckObject on one bucket of the bomb's collision items
bombCollisionCheckObject(w, ids, passNo) ==
    IF sourceUnfit(w.units, "s") THEN w ELSE bombScanTargets(w, ids, 1, passNo)

\* collisionCheckZone(collision, zone): every item of the collision, in order
RECURSIVE bombCollisionCheckZone(_, _, _, _)
bombCollisionCheckZone(w, zone, i, passNo) ==
    IF i > Len(BombItems) THEN w
    ELSE CHOOSE r \in
           {bombCollisionCheckZone(after, zone, i + 1, passNo) :
              after \in {bombCollisionCheckObject(w, w.zones[zone][BombItems[i]],
                                                  passNo)}} : TRUE

\* collisionTest(exports.collision, exports) of the bomb
bombCollisionTest(w) ==
    CHOOSE r \in
      {IF w.flags.multiZone
       THEN bombCollisionCheckZone(front, "rear", 1, w.passes + 1)
       ELSE front :
         front \in {bombCollisionCheckZone([w EXCEPT !.passes = @ + 1], "front", 1,
                                           w.passes + 1)}} : TRUE

\* animate(exports) of a live bomb: it falls, dies on the ground, and tests
\* its collisions
animateBomb(w) ==
    CHOOSE r \in
      {bombCollisionTest(
         IF moved.units["s"].y > 380 * moved.units["s"].q
         THEN dieBomb([moved EXCEPT !.flags.hasHitGround = TRUE],
                  [bottomAlign |-> TRUE, target |-> <<>>])
         ELSE moved) :
         moved \in {[w EXCEPT !.units["s"].y = @ + w.units["s"].vY]}} : TRUE


\* ------------------------------------------------------------ fire()
\* world.data is the data of a CPU helicopter with its AI: the four intents
\* (firing, bombing, missileLaunching, parachuting), the inventory, the
\* frame counters and moduli, missileReloading and parachutingThrottle;
\* bombTarget is data.bombTargets[0] (<<>> for none), missileTarget what
\* data.ai.getMissileTarget() returns ("null" for none) and cloaked whether
\* that target is cloaked.  world.ledger is the AI's bombsByTarget.  A call
\* of fire returns [data, ledger, refused, added]: refused is whether the
\* ledger refused the bomb, added the objects handed to game.addObject.

\* the firing block; without ammo the CPU may retaliate with a smart
\* missile, which the AI schedules by a frame timeout
fireBlock(d) ==
    LET fired == IF d.firing /\ d.fireFrameCount = 0
                 THEN [d EXCEPT !.fireFrameCount = d.fireModulus,
                                !.ammo = Max(0, @ - 1)]
                 ELSE d
    IN  [data |-> [fired EXCEPT !.fireFrameCount = Max(0, @ - 1)],
         added |-> IF d.firing /\ d.fireFrameCount = 0 /\ d.ammo > 0
                   THEN <<"gunfire">> ELSE <<>>]

\* whether data.ai.canBombTarget(bombTarget) is asked and answers no
bombRefused(d, ledger) ==
    /\ d.bombing /\ d.bombFrameCount = 0 /\ d.bombs > 0
    /\ d.bombTarget # <<>>
    /\ ~canBombTarget(ledger, Target(d.bombTarget[1])).returned

\* the bombing block when the ledger does not refuse
bombBlock(d, ledger) ==
    LET due == d.bombing /\ d.bombFrameCount = 0
        drops == due /\ d.bombs > 0
        counted == drops /\ d.bombTarget # <<>>
        dropped == IF due
                   THEN [d EXCEPT !.bombFrameCount = d.bombModulus,
                                  !.bombs = Max(0, @ - 1)]
                   ELSE d
    IN  [data |-> [dropped EXCEPT !.bombFrameCount = Max(0, @ - 1)],
         ledger |-> IF counted
                    THEN addBomb(canBombTarget(ledger, Target(d.bombTarget[1])).bombsByTarget,
                                 {}, Target(d.bombTarget[1])).bombsByTarget
                    ELSE ledger,
         added |-> IF drops THEN <<"bomb">> ELSE <<>>]

\* whether the missile block launches a smart missile
missileDue(d) ==
    /\ d.missileLaunching /\ d.smartMissiles > 0
    /\ ~d.missileReloading /\ d.missileTarget # "null" /\ ~d.cloaked

missileBlock(d) ==
    LET launched == IF missileDue(d)
                    THEN [d EXCEPT !.smartMissiles = Max(0, @ - 1),
                                   !.missileReloading = TRUE]
                    ELSE d
    IN  [data |-> [launched EXCEPT !.missileLaunchingFrameCount = Max(0, @ - 1)],
         added |-> IF missileDue(d) THEN <<"smart-missile">> ELSE <<>>]

\* whether the parachute block drops a paratrooper
parachuteDue(d) == d.parachuting /\ d.parachutes > 0 /\ ~d.parachutingThrottle

parachuteBlock(d) ==
    LET dropped == IF parachuteDue(d)
                   THEN [d EXCEPT !.parachutingThrottle = TRUE,
                                  !.parachutes = Max(0, @ - 1)]
                   ELSE d
    IN  [data |-> [dropped EXCEPT !.parachuteFrameCount = @ + 1],
         added |-> IF parachuteDue(d) THEN <<"parachute-infantry">> ELSE <<>>]

\* fire(exports)
fire(d, ledger) ==
    IF ~d.firing /\ ~d.bombing /\ ~d.missileLaunching /\ ~d.parachuting
    THEN [data |-> d, ledger |-> ledger, refused |-> FALSE, added |-> <<>>]
    ELSE LET f == fireBlock(d)
         IN  IF bombRefused(f.data, ledger)
             THEN \* exit if already at limit: if (!data.ai.canBombTarget(bombTarget)) return;
                  [data |-> [f.data EXCEPT !.bombFrameCount = d.bombModulus],
                   ledger |-> canBombTarget(ledger, Target(d.bombTarget[1])).bombsByTarget,
                   refused |-> TRUE, added |-> f.added]
             ELSE LET b == bombBlock(f.data, ledger)
                      m == missileBlock(b.data)
                      p == parachuteBlock(m.data)
                  IN  [data |-> p.data, ledger |-> b.ledger, refused |-> FALSE,
                       added |-> f.added \o b.added \o m.added \o p.added]

RestLocator == world = NoWorld /\ query = NoQuery /\ found = <<>>

RestQuery == RestZones /\ RestLocator

\* -------------------------------------------------------- specifications
\* Each specification runs one part of the program; the other parts rest at
\* the values below.
RestRect == Rect(0, 0, 1, 1)
RestCc == [fn |-> "none", returned |-> FALSE]
RestLevel == [bNapalm |-> FALSE, watch |-> "men"]
RestTargets == [id \in TargetIDs |-> [type |-> "tank", dead |-> FALSE]]
RestBombs == [id \in TargetIDs |-> 0]
RestUnits == [id \in {"s"} |-> Unit("s", "gunfire", 0, FALSE, 0)]
RestBucket == [present |-> FALSE, ids |-> <<>>]
RestLog == [log |-> NoLog, run |-> NoRun]

InitOverlap ==
    /\ \/ rect1 \in InputRects /\ rect2 \in InputRects
          /\ rect1XLookAhead \in {Q(n, 1) : n \in -MaxLook..MaxLook}
       \/ rect1 = ScenarioA /\ rect2 \in ScenarioB /\ rect1XLookAhead = Zero
    /\ ccResult = RestCc
    /\ sData = NoTween.sData /\ tData = NoTween.sData /\ repositionOnHit = TRUE
    /\ tweenResult = NoTween
    /\ units = RestUnits /\ zoneObjects = RestBucket /\ pass = NoPass
    /\ level = RestLevel /\ targets = RestTargets /\ bombsByTarget = emptyLedger
    /\ frameTimeouts = {} /\ bombs = RestBombs /\ ledgerLog = RestLog
    /\ RestPilot /\ RestQuery

NextOverlap == CallCollisionCheck \/ CallCollisionCheckX

SpecOverlap == InitOverlap /\ [][NextOverlap]_vars

InitTween ==
    /\ \E v \in TweenV : \E case \in TweenCases(v) \cup ExpiredCases :
          /\ sData = case[1]
          /\ tData = case[2]
          /\ tweenResult = [NoTween EXCEPT !.sData = case[1]]
    /\ repositionOnHit = TRUE
    /\ rect1 = RestRect /\ rect2 = RestRect /\ rect1XLookAhead = Zero /\ ccResult = RestCc
    /\ units = RestUnits /\ zoneObjects = RestBucket /\ pass = NoPass
    /\ level = RestLevel /\ targets = RestTargets /\ bombsByTarget = emptyLedger
    /\ frameTimeouts = {} /\ bombs = RestBombs /\ ledgerLog = RestLog
    /\ RestPilot /\ RestQuery

NextTween == CallCollisionCheckTweens

SpecTween == InitTween /\ [][NextTween]_vars

InitLedger ==
    /\ level \in [bNapalm : BOOLEAN, watch : {"t1", "men"}]
    /\ \E types \in LevelTargets :
          targets = [id \in TargetIDs |-> [type |-> types[id], dead |-> FALSE]]
    /\ bombsByTarget = emptyLedger
    /\ frameTimeouts = {}
    /\ bombs = RestBombs
    /\ ledgerLog = RestLog
    /\ rect1 = RestRect /\ rect2 = RestRect /\ rect1XLookAhead = Zero /\ ccResult = RestCc
    /\ sData = NoTween.sData /\ tData = NoTween.sData /\ repositionOnHit = TRUE
    /\ tweenResult = NoTween
    /\ units = RestUnits /\ zoneObjects = RestBucket /\ pass = NoPass
    /\ RestPilot /\ RestQuery

NextLedger ==
    \/ \E id \in TargetIDs : Fire(id)
    \/ \E id \in TargetIDs, didHitTarget \in BOOLEAN : BombDie(id, didHitTarget)
    \/ \E id \in TargetIDs : TargetDies(id)
    \/ \E id \in TargetIDs : TargetRespawns(id)
    \/ \E tm \in frameTimeouts : FrameTimeout(tm)

SpecLedger == InitLedger /\ [][NextLedger]_vars

\* a fit source against every bucket, target flags and position; an unfit
\* source against a bucket of two live enemy targets that overlap it
InitDispatch ==
    /\ \E kind \in SourceKinds, isEnemy \in BOOLEAN, status \in SourceStatus,
          type \in BucketTypes, bucket \in Buckets,
          aEnemy \in BOOLEAN, aDead \in BOOLEAN, aExcluded \in BOOLEAN,
          ax \in {-2, 2, 3}, bx \in {2, 5} :
          /\ ("s" \in {bucket.ids[i] : i \in DOMAIN bucket.ids}) => type = kind.type
          /\ status # "ok" =>
                /\ kind.type = "gunfire" /\ ~isEnemy /\ type = "tank"
                /\ aEnemy /\ ~aDead /\ ~aExcluded /\ ax = 2 /\ bx = 2
          /\ zoneObjects = bucket
          /\ units =
                [id \in (IF status = "missing" THEN {} ELSE {"s"}) \cup {"a", "b"} |->
                    IF id = "s" THEN Source(kind, isEnemy, status)
                    ELSE IF id = "a"
                    THEN [Unit("a", type, 0, aEnemy, ax) EXCEPT
                             !.dead = aDead, !.excludeFromCollision = aExcluded]
                    ELSE Unit("b", type, 0, ~isEnemy, bx)]
    /\ pass = NoPass
    /\ rect1 = RestRect /\ rect2 = RestRect /\ rect1XLookAhead = Zero /\ ccResult = RestCc
    /\ sData = NoTween.sData /\ tData = NoTween.sData /\ repositionOnHit = TRUE
    /\ tweenResult = NoTween
    /\ level = RestLevel /\ targets = RestTargets /\ bombsByTarget = emptyLedger
    /\ frameTimeouts = {} /\ bombs = RestBombs /\ ledgerLog = RestLog
    /\ RestPilot /\ RestQuery

NextDispatch == CallCollisionCheckZone \/ CallCheckNearbyItems

SpecDispatch == InitDispatch /\ [][NextDispatch]_vars

InitAI ==
    /\ gameConfig \in {g \in GameConfigs : g.useMissileB}
    /\ \E attackB \in BOOLEAN : heli = NewHeli(attackB)
    /\ opponent = RestUnit
    /\ aiTimers = NoTimers /\ aiTimeouts = NoTimeouts
    /\ smartMissiles = 0 /\ aiLog = NoAiLog
    /\ RestTick /\ RestQuery
    /\ rect1 = RestRect /\ rect2 = RestRect /\ rect1XLookAhead = Zero /\ ccResult = RestCc
    /\ sData = NoTween.sData /\ tData = NoTween.sData /\ repositionOnHit = TRUE
    /\ tweenResult = NoTween
    /\ units = RestUnits /\ zoneObjects = RestBucket /\ pass = NoPass
    /\ level = RestLevel /\ targets = RestTargets /\ bombsByTarget = emptyLedger
    /\ frameTimeouts = {} /\ bombs = RestBombs /\ ledgerLog = RestLog

NextAI ==
    \/ OnHit
    \/ HelicopterFire
    \/ \E kind \in TimeoutKinds : AIFrameTimeout(kind)
    \/ HelicopterDies
    \/ OpponentChanges
    \/ OtherMissile

SpecAI == InitAI /\ [][NextAI]_vars

InitParatroops ==
    /\ gameConfig \in {g \in GameConfigs : ~g.useMissileB}
    /\ \E attackB \in BOOLEAN : heli = NewHeli(attackB)
    /\ opponent = RestUnit
    /\ aiTimers = NoTimers /\ aiTimeouts = NoTimeouts
    /\ smartMissiles = 0 /\ aiLog = NoAiLog
    /\ RestTick /\ RestQuery
    /\ rect1 = RestRect /\ rect2 = RestRect /\ rect1XLookAhead = Zero /\ ccResult = RestCc
    /\ sData = NoTween.sData /\ tData = NoTween.sData /\ repositionOnHit = TRUE
    /\ tweenResult = NoTween
    /\ units = RestUnits /\ zoneObjects = RestBucket /\ pass = NoPass
    /\ level = RestLevel /\ targets = RestTargets /\ bombsByTarget = emptyLedger
    /\ frameTimeouts = {} /\ bombs = RestBombs /\ ledgerLog = RestLog

NextParatroops ==
    \/ AiTick
    \/ MissileIncoming
    \/ HelicopterFire
    \/ \E kind \in TimeoutKinds : AIFrameTimeout(kind)
    \/ HelicopterDies

SpecParatroops == InitParatroops /\ [][NextParatroops]_vars

\* ticks of a helicopter in need or not of a refit, in the air or on its
\* pad; ticks with a tank and the opposing helicopter around; ticks of a
\* helicopter that is dead, respawning or out of fuel
InitTick ==
    /\ \/ \E fuel \in {10, 30}, ammo \in {0, 5, 6}, nBombs \in {0, 1}, energy \in {4, 5},
            levelNumber \in {1, 3}, bullets \in BOOLEAN,
            place \in {"air", "pad", "repairing", "repaired"} :
             /\ cpu = [NewCpu EXCEPT !.fuel = fuel, !.ammo = ammo, !.bombs = nBombs,
                          !.energy = energy,
                          !.landed = place # "air", !.onLandingPad = place # "air",
                          !.vX = IF place = "pad" THEN 4 ELSE 0,
                          !.repairing = place = "repairing",
                          !.repairComplete = place = "repaired"]
             /\ scene = [RestScene EXCEPT !.bullets = bullets,
                            !.levelNumber = levelNumber,
                            !.units["t"] = SceneUnit("tank", FALSE, FALSE, TRUE, TRUE),
                            !.target = "t"]
       \/ \E hDead \in BOOLEAN, hCloaked \in BOOLEAN, hInRange \in BOOLEAN,
            hBelow \in BOOLEAN, attackB \in BOOLEAN, target \in {"none", "t", "h"},
            pInRange \in BOOLEAN, ammo \in {0, 6}, nBombs \in {0, 1},
            mode \in {"bullets", "killCopter", "aimedMissiles"},
            vXMaxClipped \in {6, 12}, intent \in BOOLEAN :
             /\ ~(hDead /\ hCloaked)
             /\ target = "h" => ~hDead /\ ~hCloaked
             /\ cpu = [NewCpu EXCEPT !.ammo = ammo, !.bombs = nBombs,
                          !.firing = intent, !.bombing = intent,
                          !.attackB = attackB, !.vXMaxClipped = vXMaxClipped]
             /\ scene = [RestScene EXCEPT
                            !.bullets = mode # "aimedMissiles",
                            !.killCopterB = mode = "killCopter",
                            !.target = target,
                            !.units["t"] = SceneUnit("tank", FALSE, FALSE,
                                                     target = "t", target = "t"),
                            !.units["h"] = SceneUnit("helicopter", hDead, hCloaked,
                                                     hInRange, hBelow),
                            !.units["p"] = SceneUnit("parachuteInfantry", FALSE, FALSE,
                                                     pInRange, FALSE)]
       \/ \E state \in {"dead", "respawning", "empty"} :
             /\ cpu = [NewCpu EXCEPT !.dead = state = "dead",
                          !.respawning = state = "respawning",
                          !.fuel = IF state = "empty" THEN 0 ELSE 30,
                          !.vX = 7]
             /\ scene = RestScene
    /\ tickLog = NoTick
    /\ RestAI /\ RestQuery
    /\ rect1 = RestRect /\ rect2 = RestRect /\ rect1XLookAhead = Zero /\ ccResult = RestCc
    /\ sData = NoTween.sData /\ tData = NoTween.sData /\ repositionOnHit = TRUE
    /\ tweenResult = NoTween
    /\ units = RestUnits /\ zoneObjects = RestBucket /\ pass = NoPass
    /\ level = RestLevel /\ targets = RestTargets /\ bombsByTarget = emptyLedger
    /\ frameTimeouts = {} /\ bombs = RestBombs /\ ledgerLog = RestLog

NextTick == Animate

SpecTick == InitTick /\ [][NextTick]_vars

\* a unit before and after its zones are set, in one zone or across two,
\* in zones with and without a bucket
InitZones ==
    /\ \E front \in ZoneValues, rear \in ZoneValues, multiZone \in BOOLEAN :
          /\ multiZone => front # rear
          /\ (~multiZone /\ front # "null" /\ rear # "null") => front = rear
          /\ member = [frontZone |-> front, rearZone |-> rear, multiZone |-> multiZone]
    /\ objectsByZone \in [{"z0", "z1"} -> [ZoneItems -> BOOLEAN]]
    /\ zoneLog = NoZoneLog
    /\ RestLocator /\ RestPilot
    /\ rect1 = RestRect /\ rect2 = RestRect /\ rect1XLookAhead = Zero /\ ccResult = RestCc
    /\ sData = NoTween.sData /\ tData = NoTween.sData /\ repositionOnHit = TRUE
    /\ tweenResult = NoTween
    /\ units = RestUnits /\ zoneObjects = RestBucket /\ pass = NoPass
    /\ level = RestLevel /\ targets = RestTargets /\ bombsByTarget = emptyLedger
    /\ frameTimeouts = {} /\ bombs = RestBombs /\ ledgerLog = RestLog

NextZones == CallCollisionTest \/ CallNearbyTest

SpecZones == InitZones /\ [][NextZones]_vars

\* two tanks and a helicopter around the source, at distances on both sides
\* of the trigger distances, in a local and in a network session
InitInView ==
    /\ \E x1 \in {-90, 100, 400, 512}, e1 \in BOOLEAN,
          s1 \in {"ok", "dead", "cloaked", "inert", "neutral"},
          x2 \in {90, 400},
          xh \in {-90, 500}, sh \in {"ok", "cloaked", "grounded"}, net \in BOOLEAN :
          world = [net |-> net,
                   objects |-> [tank |-> <<"t1", "t2">>, helicopter |-> <<"h1">>],
                   data |-> [t1 |-> ViewUnit("tank", x1, e1, s1),
                             t2 |-> ViewUnit("tank", x2, TRUE, "ok"),
                             h1 |-> ViewUnit("helicopter", xh, TRUE, sh)]]
    /\ query = NoQuery /\ found = <<>>
    /\ RestZones /\ RestPilot
    /\ rect1 = RestRect /\ rect2 = RestRect /\ rect1XLookAhead = Zero /\ ccResult = RestCc
    /\ sData = NoTween.sData /\ tData = NoTween.sData /\ repositionOnHit = TRUE
    /\ tweenResult = NoTween
    /\ units = RestUnits /\ zoneObjects = RestBucket /\ pass = NoPass
    /\ level = RestLevel /\ targets = RestTargets /\ bombsByTarget = emptyLedger
    /\ frameTimeouts = {} /\ bombs = RestBombs /\ ledgerLog = RestLog

NextInView == CallObjectsInView \/ CallEnemyNearby \/ CallEnemyHelicopterNearby

SpecInView == InitInView /\ [][NextInView]_vars

\* a super bunker 50 away, a helicopter 80 away, a tank nearer than both,
\* farther than both or out of reach, a balloon high up, around a source at
\* x = 1000
InitNearest ==
    /\ \E sbSide \in BOOLEAN, sbStatus \in {"ok", "dead"},
          hSide \in BOOLEAN, hStatus \in {"ok", "dead", "cloaked"},
          tX \in {1040, 1100, 4100}, tSide \in BOOLEAN, tStatus \in {"ok", "dead"},
          bSide \in BOOLEAN, bHostile \in BOOLEAN :
          world = [net |-> FALSE,
                   objects |-> [tank |-> <<"t1">>, helicopter |-> <<"h1">>,
                                balloon |-> <<"b1">>, superBunker |-> <<"sb">>],
                   data |-> [sb |-> NearUnit("superBunker", 1050, 350, 66, TRUE,
                                             sbSide, FALSE, sbStatus),
                             h1 |-> NearUnit("helicopter", 1080, 335, 48, FALSE,
                                             hSide, FALSE, hStatus),
                             t1 |-> NearUnit("tank", tX, 360, 58, TRUE,
                                             tSide, FALSE, tStatus),
                             b1 |-> NearUnit("balloon", 1200, 200, 38, FALSE,
                                             bSide, bHostile, "ok")]]
    /\ query = NoQuery /\ found = <<>>
    /\ RestZones /\ RestPilot
    /\ rect1 = RestRect /\ rect2 = RestRect /\ rect1XLookAhead = Zero /\ ccResult = RestCc
    /\ sData = NoTween.sData /\ tData = NoTween.sData /\ repositionOnHit = TRUE
    /\ tweenResult = NoTween
    /\ units = RestUnits /\ zoneObjects = RestBucket /\ pass = NoPass
    /\ level = RestLevel /\ targets = RestTargets /\ bombsByTarget = emptyLedger
    /\ frameTimeouts = {} /\ bombs = RestBombs /\ ledgerLog = RestLog

NextNearest == CallGetNearestObject

SpecNearest == InitNearest /\ [][NextNearest]_vars

InitRng ==
    /\ world = FreshSeeds
    /\ query = NoQuery
    /\ found = [h \in Helis |-> <<>>]
    /\ RestZones /\ RestPilot
    /\ rect1 = RestRect /\ rect2 = RestRect /\ rect1XLookAhead = Zero /\ ccResult = RestCc
    /\ sData = NoTween.sData /\ tData = NoTween.sData /\ repositionOnHit = TRUE
    /\ tweenResult = NoTween
    /\ units = RestUnits /\ zoneObjects = RestBucket /\ pass = NoPass
    /\ level = RestLevel /\ targets = RestTargets /\ bombsByTarget = emptyLedger
    /\ frameTimeouts = {} /\ bombs = RestBombs /\ ledgerLog = RestLog

NextRng == CallAiRNG \/ CallRng

SpecRng == InitRng /\ [][NextRng]_vars

InitTypes ==
    /\ world = NoWorld /\ query = NoQuery /\ found = <<>>
    /\ RestZones /\ RestPilot
    /\ rect1 = RestRect /\ rect2 = RestRect /\ rect1XLookAhead = Zero /\ ccResult = RestCc
    /\ sData = NoTween.sData /\ tData = NoTween.sData /\ repositionOnHit = TRUE
    /\ tweenResult = NoTween
    /\ units = RestUnits /\ zoneObjects = RestBucket /\ pass = NoPass
    /\ level = RestLevel /\ targets = RestTargets /\ bombsByTarget = emptyLedger
    /\ frameTimeouts = {} /\ bombs = RestBombs /\ ledgerLog = RestLog

NextTypes == CallGetTypes

SpecTypes == InitTypes /\ [][NextTypes]_vars

\* what is in view of the helicopter, type by type
InitTarget ==
    /\ \E seen \in SUBSET {"helicopter", "tank", "bunker", "superBunker", "cloud"},
          balloon \in BOOLEAN, scatterBombB \in BOOLEAN, bullets \in BOOLEAN :
          world = [net |-> FALSE,
                   inView |-> [helicopter |-> IF "helicopter" \in seen
                                              THEN "helicopter_1" ELSE "null",
                               tank |-> IF "tank" \in seen THEN "tank_1" ELSE "null",
                               bunker |-> IF "bunker" \in seen THEN "bunker_1" ELSE "null",
                               superBunker |-> IF "superBunker" \in seen
                                               THEN "superBunker_1" ELSE "null",
                               cloud |-> IF "cloud" \in seen THEN "cloud_1" ELSE "null"],
                   balloons |-> IF balloon THEN <<"balloon_1">> ELSE <<>>,
                   scatterBombB |-> scatterBombB, bullets |-> bullets]
    /\ query = NoQuery /\ found = <<>>
    /\ RestZones /\ RestPilot
    /\ rect1 = RestRect /\ rect2 = RestRect /\ rect1XLookAhead = Zero /\ ccResult = RestCc
    /\ sData = NoTween.sData /\ tData = NoTween.sData /\ repositionOnHit = TRUE
    /\ tweenResult = NoTween
    /\ units = RestUnits /\ zoneObjects = RestBucket /\ pass = NoPass
    /\ level = RestLevel /\ targets = RestTargets /\ bombsByTarget = emptyLedger
    /\ frameTimeouts = {} /\ bombs = RestBombs /\ ledgerLog = RestLog

NextTarget == CallCheckNewTarget

SpecTarget == InitTarget /\ [][NextTarget]_vars

\* a helicopter at x = 1000 and three targets within firing range on either
\* side of it
InitRates ==
    /\ \E xa \in {700, 1100}, xb \in {900, 1250}, xc \in {1050, 1290} :
          world = [net |-> FALSE, x |-> 1000,
                   data |-> [a |-> [x |-> xa, type |-> "tank"],
                             b |-> [x |-> xb, type |-> "helicopter"],
                             c |-> [x |-> xc, type |-> "parachuteInfantry"]]]
    /\ query = NoQuery /\ found = <<>>
    /\ RestZones /\ RestPilot
    /\ rect1 = RestRect /\ rect2 = RestRect /\ rect1XLookAhead = Zero /\ ccResult = RestCc
    /\ sData = NoTween.sData /\ tData = NoTween.sData /\ repositionOnHit = TRUE
    /\ tweenResult = NoTween
    /\ units = RestUnits /\ zoneObjects = RestBucket /\ pass = NoPass
    /\ level = RestLevel /\ targets = RestTargets /\ bombsByTarget = emptyLedger
    /\ frameTimeouts = {} /\ bombs = RestBombs /\ ledgerLog = RestLog

NextRates == CallSetRates

SpecRates == InitRates /\ [][NextRates]_vars

\* ------------------------------------------------ specification: the bomb
BombUnit(id, type, isEnemy, y, energy) ==
    [id |-> id, type |-> type, role |-> 0, isEnemy |-> isEnemy,
     dead |-> FALSE, isInert |-> FALSE, expired |-> FALSE, hostile |-> FALSE,
     isNeutral |-> FALSE, excludeFromCollision |-> FALSE,
     x |-> 0, y |-> y, width |-> 14, height |-> 6, q |-> 1,
     vX |-> 0, vY |-> IF id = "s" THEN 4 ELSE 0,
     energy |-> energy, energyMax |-> 15]

BombTargetTypes == {"tank", "helicopter", "van", "infantry"}
\* a target registered in the bomb's front zone, its rear zone, or both
Registered == {"front", "rear", "both"}

\* the bucket of the zone for the type: a before b
bucketOf(zone, type, types, zonesOf) ==
    SelectSeq(<<"a", "b">>,
              LAMBDA id : types[id] = type /\ zonesOf[id] \in {zone, "both"})

\* animate(exports) of a live bomb
BombAnimate ==
    /\ "removed" \in DOMAIN world
    /\ ~world.removed /\ ~world.units["s"].dead
    /\ \E extraY \in {3, 5} :
          world' = animateBomb([world EXCEPT !.extraY = extraY])
    /\ UNCHANGED <<query, found, overlapVars, tweenVars, dispatchVars, ledgerVars,
                   pilotVars, zoneVars>>

\* exports.die() called from outside the bomb, at any time of its life
CallBombDie ==
    /\ "removed" \in DOMAIN world
    /\ ~world.removed
    /\ world.dieCalls < MaxDieCalls
    /\ world' = dieBomb([world EXCEPT !.extraY = 0], [bottomAlign |-> FALSE, target |-> <<>>])
    /\ UNCHANGED <<query, found, overlapVars, tweenVars, dispatchVars, ledgerVars,
                   pilotVars, zoneVars>>

\* animate(exports) of a dead bomb whose deadTimer has fired: the bomb is
\* destroyed
BombDestroyed ==
    /\ "removed" \in DOMAIN world
    /\ ~world.removed /\ world.units["s"].dead
    /\ world' = [world EXCEPT !.removed = TRUE]
    /\ UNCHANGED <<query, found, overlapVars, tweenVars, dispatchVars, ledgerVars,
                   pilotVars, zoneVars>>

\* a bomb of the left side above two targets of the right side, each in
\* the air or on the ground, with little or much energy
InitBomb ==
    /\ \E types \in [{"a", "b"} -> BombTargetTypes],
          ys \in [{"a", "b"} -> {372, 380}],
          energies \in [{"a", "b"} -> {5, 15}],
          zonesOf \in [{"a", "b"} -> Registered],
          multiZone \in BOOLEAN :
          world = [net |-> FALSE,
                   units |-> [id \in {"s", "a", "b"} |->
                                IF id = "s" THEN BombUnit("s", "bomb", FALSE, 370, 3)
                                ELSE BombUnit(id, types[id], TRUE, ys[id], energies[id])],
                   zones |-> [zone \in {"front", "rear"} |->
                                [type \in BombTargetTypes |->
                                   bucketOf(zone, type, types, zonesOf)]],
                   flags |-> [hasHitGround |-> FALSE, groundCollisionTest |-> FALSE,
                              multiZone |-> multiZone],
                   hits |-> <<>>, onDie |-> <<>>, dieCalls |-> 0, passes |-> 0,
                   extraY |-> 0, removed |-> FALSE]
    /\ query = NoQuery /\ found = <<>>
    /\ RestZones /\ RestPilot
    /\ rect1 = RestRect /\ rect2 = RestRect /\ rect1XLookAhead = Zero /\ ccResult = RestCc
    /\ sData = NoTween.sData /\ tData = NoTween.sData /\ repositionOnHit = TRUE
    /\ tweenResult = NoTween
    /\ units = RestUnits /\ zoneObjects = RestBucket /\ pass = NoPass
    /\ level = RestLevel /\ targets = RestTargets /\ bombsByTarget = emptyLedger
    /\ frameTimeouts = {} /\ bombs = RestBombs /\ ledgerLog = RestLog

NextBomb == BombAnimate \/ CallBombDie \/ BombDestroyed

SpecBomb == InitBomb /\ [][NextBomb]_vars

\* ---------------------------------------------------- specification: fire
Intents == {"firing", "bombing", "missileLaunching", "parachuting"}

NoFire == [fn |-> "none"]

fireUnchanged == <<overlapVars, tweenVars, dispatchVars, pilotVars, zoneVars,
                   level, frameTimeouts, bombs, ledgerLog>>

\* fire(exports), each frame
CallFire ==
    /\ "ledger" \in DOMAIN world
    /\ world.data.parachuteFrameCount < MaxFrames
    /\ \E r \in {fire(world.data, world.ledger)} :
          /\ world' = [world EXCEPT !.data = r.data, !.ledger = r.ledger]
          /\ found' = [fn |-> "fire", before |-> world.data, after |-> r.data,
                       refused |-> r.refused, added |-> r.added]
    /\ UNCHANGED <<query, targets, bombsByTarget, fireUnchanged>>

\* setFiring, setBombing, setMissileLaunching and setParachuting as the AI
\* and its frame timeouts call them; setParachuting resets the frame count
SetIntent ==
    /\ "ledger" \in DOMAIN world
    /\ \E intent \in Intents, state \in BOOLEAN :
          /\ world.data[intent] # state
          /\ world' = [world EXCEPT
                          !.data = IF intent = "parachuting"
                                   THEN [@ EXCEPT !.parachuting = state,
                                                  !.parachuteFrameCount = world.data.parachuteModulus]
                                   ELSE [@ EXCEPT ![intent] = state]]
    /\ found' = NoFire
    /\ UNCHANGED <<query, targets, bombsByTarget, fireUnchanged>>

\* the AI picks the target of its bombs and of its missiles
SetTargets ==
    /\ "ledger" \in DOMAIN world
    /\ \E bombTarget \in {<<>>, <<"t1">>}, missileTarget \in {"null", "t2"},
          cloaked \in BOOLEAN :
          /\ missileTarget = "null" => ~cloaked
          /\ <<bombTarget, missileTarget, cloaked>> #
                <<world.data.bombTarget, world.data.missileTarget, world.data.cloaked>>
          /\ world' = [world EXCEPT !.data.bombTarget = bombTarget,
                                    !.data.missileTarget = missileTarget,
                                    !.data.cloaked = cloaked]
    /\ found' = NoFire
    /\ UNCHANGED <<query, targets, bombsByTarget, fireUnchanged>>

\* the frame timeouts of fire: missileReloadingTimer and parachutingTimer
FireTimeout ==
    /\ "ledger" \in DOMAIN world
    /\ \/ /\ world.data.missileReloading
          /\ world' = [world EXCEPT !.data.missileReloading = FALSE]
       \/ /\ world.data.parachutingThrottle
          /\ world' = [world EXCEPT !.data.parachutingThrottle = FALSE]
    /\ found' = NoFire
    /\ UNCHANGED <<query, targets, bombsByTarget, fireUnchanged>>

\* params.onDie of a bomb that missed its live target: removeBomb
FireBombMissed ==
    /\ "ledger" \in DOMAIN world
    /\ "t1" \in DOMAIN world.ledger
    /\ world' = [world EXCEPT !.ledger = removeBomb(@, Target("t1"))]
    /\ found' = NoFire
    /\ UNCHANGED <<query, targets, bombsByTarget, fireUnchanged>>

\* a CPU helicopter in the air with a full inventory and an empty ledger;
\* its bombs are for a tank or a van
InitFire ==
    /\ \E type \in {"tank", "van"} :
          targets = [id \in TargetIDs |->
                       [type |-> IF id = "t1" THEN type ELSE "helicopter", dead |-> FALSE]]
    /\ world = [net |-> FALSE,
                data |-> [firing |-> FALSE, bombing |-> FALSE,
                          missileLaunching |-> FALSE, parachuting |-> FALSE,
                          ammo |-> 1, bombs |-> 4, smartMissiles |-> 1, parachutes |-> 1,
                          fireFrameCount |-> 0, fireModulus |-> 1,
                          bombFrameCount |-> 0, bombModulus |-> 1,
                          missileLaunchingFrameCount |-> 0,
                          parachuteFrameCount |-> 0, parachuteModulus |-> 1,
                          missileReloading |-> FALSE, parachutingThrottle |-> FALSE,
                          bombTarget |-> <<>>, missileTarget |-> "null",
                          cloaked |-> FALSE],
                ledger |-> emptyLedger]
    /\ query = NoQuery /\ found = NoFire
    /\ RestZones /\ RestPilot
    /\ rect1 = RestRect /\ rect2 = RestRect /\ rect1XLookAhead = Zero /\ ccResult = RestCc
    /\ sData = NoTween.sData /\ tData = NoTween.sData /\ repositionOnHit = TRUE
    /\ tweenResult = NoTween
    /\ units = RestUnits /\ zoneObjects = RestBucket /\ pass = NoPass
    /\ level = RestLevel /\ bombsByTarget = emptyLedger
    /\ frameTimeouts = {} /\ bombs = RestBombs /\ ledgerLog = RestLog

NextFire == CallFire \/ SetIntent \/ SetTargets \/ FireTimeout \/ FireBombMissed

SpecFire == InitFire /\ [][NextFire]_vars

\* a battle with smart missiles and paratroopers: the hits, the ticks and the
\* incoming missiles that set the throttles of a helicopter in defend mode
\* (no callback waits for the bound on the retaliation timeouts), with
\* every scheduled frame timeout firing in the end
InitThrottles ==
    /\ gameConfig \in {g \in GameConfigs : g.useMissileB /\ g.bullets /\ ~g.tutorialMode}
    /\ heli = NewHeli(FALSE)
    /\ opponent = RestUnit
    /\ aiTimers = NoTimers /\ aiTimeouts = NoTimeouts
    /\ smartMissiles = 0 /\ aiLog = NoAiLog
    /\ RestTick /\ RestQuery
    /\ rect1 = RestRect /\ rect2 = RestRect /\ rect1XLookAhead = Zero /\ ccResult = RestCc
    /\ sData = NoTween.sData /\ tData = NoTween.sData /\ repositionOnHit = TRUE
    /\ tweenResult = NoTween
    /\ units = RestUnits /\ zoneObjects = RestBucket /\ pass = NoPass
    /\ level = RestLevel /\ targets = RestTargets /\ bombsByTarget = emptyLedger
    /\ frameTimeouts = {} /\ bombs = RestBombs /\ ledgerLog = RestLog

NextThrottles ==
    \/ OnHit
    \/ AiTick
    \/ MissileIncoming
    \/ \E kind \in TimeoutKinds : AIFrameTimeout(kind)
    \/ HelicopterDies
    \/ OpponentChanges

SpecThrottles ==
    /\ InitThrottles /\ [][NextThrottles]_vars
    /\ \A kind \in TimeoutKinds : WF_vars(AIFrameTimeout(kind))

\* a CPU helicopter outside tutorial mode, its targeting flags all off as
\* it is created, under the re-roll, the hits and their delayed roll, its
\* kills and its own death
InitTargeting ==
    /\ gameConfig \in {g \in GameConfigs : ~g.tutorialMode}
    /\ heli = NewHeli(FALSE)
    /\ opponent = RestUnit
    /\ aiTimers = NoTimers /\ aiTimeouts = NoTimeouts
    /\ smartMissiles = 0 /\ aiLog = NoAiLog
    /\ RestTick /\ RestQuery
    /\ rect1 = RestRect /\ rect2 = RestRect /\ rect1XLookAhead = Zero /\ ccResult = RestCc
    /\ sData = NoTween.sData /\ tData = NoTween.sData /\ repositionOnHit = TRUE
    /\ tweenResult = NoTween
    /\ units = RestUnits /\ zoneObjects = RestBucket /\ pass = NoPass
    /\ level = RestLevel /\ targets = RestTargets /\ bombsByTarget = emptyLedger
    /\ frameTimeouts = {} /\ bombs = RestBombs /\ ledgerLog = RestLog

NextTargeting ==
    \/ TargetingReroll
    \/ OnHit
    \/ \E kind \in TimeoutKinds : AIFrameTimeout(kind)
    \/ OnKill
    \/ HelicopterDies

SpecTargeting == InitTargeting /\ [][NextTargeting]_vars

\* ------------------------------------------------------------- claims
\* the limit the claims state for a target type
ClaimedBombLimit(type) == IF type \in {"tank", "helicopter"} THEN 3 ELSE 1

\* C6: in every reachable state of the ledger, each entry's bombCount is at
\* most its bombLimit.
C6_CountAtMostLimit ==
    \A k \in DOMAIN bombsByTarget : bombsByTarget[k].bombCount <= bombsByTarget[k].bombLimit

\* a tank or helicopter entry filled to its limit by the last fire
C6_Witness ==
    /\ ledgerLog.log.op = "fire" /\ ~ledgerLog.log.refused /\ ledgerLog.log.before = 2
    /\ \E k \in DOMAIN bombsByTarget :
          bombsByTarget[k].bombCount = 3 /\ bombsByTarget[k].bombLimit = 3

\* C7: a bomb drop is refused exactly when the target is no turret and its
\* key already counts the limit of its type (3 for tanks and helicopters, 1
\* otherwise), so three drops on a tank succeed, the fourth is refused, and
\* drops succeed again once a removeBomb or a timer has lowered the count;
\* every entry carries the limit of its type.
C7_RefusedExactlyAtLimit ==
    /\ ledgerLog.log.op = "fire" =>
          (ledgerLog.log.refused <=>
              /\ ledgerLog.log.type # "turret"
              /\ ledgerLog.log.before >= ClaimedBombLimit(ledgerLog.log.type))
    /\ \A id \in TargetIDs :
          getBombTargetID(Target(id)) \in DOMAIN bombsByTarget /\ targets[id].type # "turret" =>
              bombsByTarget[getBombTargetID(Target(id))].bombLimit
                  = ClaimedBombLimit(targets[id].type)

\* the fourth drop on a tank is refused
C7_Witness ==
    /\ ledgerLog.log.op = "fire" /\ ledgerLog.log.type = "tank"
    /\ ledgerLog.log.refused /\ ledgerLog.log.before = 3

C9_NoEmptyEntry == \A k \in DOMAIN bombsByTarget : bombsByTarget[k].bombCount >= 1

\* a removeBomb took the last counted bomb of an entry, and the entry is gone
C9_Witness ==
    /\ ledgerLog.log.op = "remove" /\ ledgerLog.log.before = 1
    /\ ledgerLog.log.key \notin DOMAIN bombsByTarget

\* C10: starting with no entry for a key, N >= 1 addBomb calls followed by at
\* least N removeBomb calls on the key leave no entry for it, and a removeBomb
\* on a key without an entry changes nothing.
C10_AddsThenRemovesLeaveNoEntry ==
    /\ ledgerLog.run.ok /\ ledgerLog.run.adds >= 1
          /\ ledgerLog.run.removes >= ledgerLog.run.adds
          => level.watch \notin DOMAIN bombsByTarget
    /\ ledgerLog.log.removedAbsent => ~ledgerLog.log.changed

\* two addBomb calls followed by two removeBomb calls
C10_Witness ==
    /\ ledgerLog.run.ok /\ ledgerLog.run.adds = 2 /\ ledgerLog.run.removes = 2
    /\ ledgerLog.log.op = "remove"

\* the open spans (a1, a2) and (b1, b2) share a point: one of the half-integers
SpansIntersect(a1, a2, b1, b2) ==
    \E p \in (2 * Min(a1, b1))..(2 * Max(a2, b2)) :
        2 * a1 < p /\ p < 2 * a2 /\ 2 * b1 < p /\ p < 2 * b2

\* C1 as claimed: with nonzero velocity and neither object expired and
\* non-hostile, an overlap at the source's start position (position minus
\* velocity) or at its end position makes collisionCheckTweens return true.
C1_TweenCoversEitherEndpoint ==
    LET s == tweenResult.sData
    IN  /\ tweenResult.returned # "none"
        /\ s.vX # 0 \/ s.vY # 0
        /\ ~(s.expired /\ ~s.hostile) /\ ~(tData.expired /\ ~tData.hostile)
        /\ \/ collisionCheckWithOffsets(s, tData, Q(-s.vX, 1), Q(-s.vY, 1))
           \/ collisionCheck(s, tData, Zero)
        => tweenResult.returned = "true"

\* C1 amended: an overlap at the start position and at the end position makes
\* collisionCheckTweens return true.
C1_TweenCoversBothEndpoints ==
    LET s == tweenResult.sData
    IN  /\ tweenResult.returned # "none"
        /\ s.vX # 0 \/ s.vY # 0
        /\ ~(s.expired /\ ~s.hostile) /\ ~(tData.expired /\ ~tData.hostile)
        /\ collisionCheckWithOffsets(s, tData, Q(-s.vX, 1), Q(-s.vY, 1))
        /\ collisionCheck(s, tData, Zero)
        => tweenResult.returned = "true"

\* a moving source that overlaps its target before and after the move, found
C1_Witness ==
    LET s == tweenResult.sData
    IN  /\ tweenResult.returned = "true"
        /\ s.vX # 0 /\ s.vY # 0
        /\ collisionCheckWithOffsets(s, tData, Q(-s.vX, 1), Q(-s.vY, 1))
        /\ collisionCheck(s, tData, Zero)

\* C3: collisionCheck with look-ahead 0 is true iff the x spans and the y
\* spans of the rectangles intersect, whichever rectangle comes first; rect A
\* {x:0, width:10} overlaps rect B at x:8 and not at x:20.
C3_OverlapIffSpansIntersect ==
    ccResult.fn = "collisionCheck" /\ rect1XLookAhead = Zero =>
        /\ ccResult.returned <=>
              /\ SpansIntersect(rect1.x, rect1.x + rect1.width, rect2.x, rect2.x + rect2.width)
              /\ SpansIntersect(rect1.y, rect1.y + rect1.height, rect2.y, rect2.y + rect2.height)
        /\ ccResult.returned <=> collisionCheck(rect2, rect1, Zero)
        /\ rect1 = ScenarioA /\ rect2 \in ScenarioB => (ccResult.returned <=> rect2.x = 8)

\* rect A {x:0, width:10} against rect B {x:8, width:10}: overlap
C3_Witness ==
    /\ ccResult.fn = "collisionCheck" /\ ccResult.returned
    /\ rect1 = ScenarioA /\ rect2.x = 8

\* C4 as claimed: a look-ahead only extends the box, so a rectangle that
\* overlaps with look-ahead 0 overlaps with any look-ahead.
C4_LookAheadOnlyExtends ==
    /\ ccResult.fn = "collisionCheck"
    /\ Abs(rect1XLookAhead.n) < rect1.width
    /\ collisionCheck(rect1, rect2, Zero)
    => ccResult.returned

\* C4 amended: collisionCheck(A, B, L) is true iff B intersects A's box moved
\* by L on the x axis (both of its edges).
C4_LookAheadMovesTheBox ==
    ccResult.fn = "collisionCheck" =>
        (ccResult.returned <=>
            /\ SpansIntersect(rect1.x + rect1XLookAhead.n,
                              rect1.x + rect1.width + rect1XLookAhead.n,
                              rect2.x, rect2.x + rect2.width)
            /\ SpansIntersect(rect1.y, rect1.y + rect1.height,
                              rect2.y, rect2.y + rect2.height))

\* a rectangle behind the source overlaps it, and no longer with the look-ahead
C4_Witness ==
    /\ ccResult.fn = "collisionCheck" /\ ~ccResult.returned
    /\ rect1XLookAhead.n > 0
    /\ collisionCheck(rect1, rect2, Zero)

\* C2 as claimed: the hit callback is never invoked with a target that is dead
\* or flagged excludeFromCollision, nor with the source itself.
C2_HitNeverDeadExcludedOrSelf ==
    \A i \in DOMAIN pass.hitLog :
        /\ ~pass.hitLog[i].dead
        /\ ~pass.hitLog[i].excludeFromCollision
        /\ pass.hitLog[i].id # pass.hitLog[i].source.id

\* C2 amended: the hit callback is never invoked with the source itself or with
\* a target flagged excludeFromCollision, and with a dead target only when the
\* target is a turret and the source an engineer (infantry with a role).
C2_HitDeadOnlyTurretByEngineer ==
    \A i \in DOMAIN pass.hitLog :
        /\ pass.hitLog[i].id # pass.hitLog[i].source.id
        /\ ~pass.hitLog[i].excludeFromCollision
        /\ pass.hitLog[i].dead =>
              /\ pass.hitLog[i].type = "turret"
              /\ pass.hitLog[i].source.type = "infantry"
              /\ pass.hitLog[i].source.role # 0

\* a pass that scanned an excluded target overlapping the source, then hit the
\* next one only
C2_Witness ==
    /\ zoneObjects.ids = <<"a", "b">>
    /\ units["a"].excludeFromCollision /\ units["a"].x = 2
    /\ units["a"].isEnemy = units["b"].isEnemy
    /\ pass.scanned = 2
    /\ Len(pass.hitLog) = 1 /\ pass.hitLog[1].id = "b"

\* C5: when the source is missing, dead, inert, or expired and not hostile,
\* collisionCheckObject scans no candidate, invokes hit for no target, reports
\* no hit and changes no unit; against an empty or absent bucket no candidate
\* is scanned, hit is not invoked, no hit is reported and no unit changes but
\* for the source's cached widthOneThird.
C5_UnfitSourceOrEmptyBucketIsNoOp ==
    pass.fn # "none" =>
        /\ (\/ pass.source = <<>>
            \/ pass.source[1].dead
            \/ pass.source[1].isInert
            \/ (pass.source[1].expired /\ ~pass.source[1].hostile)) =>
              /\ pass.scanned = 0 /\ pass.hitLog = <<>>
              /\ pass.returned \in {"none", "false"}
              /\ ~pass.changed
        /\ (~zoneObjects.present \/ zoneObjects.ids = <<>>) =>
              /\ pass.scanned = 0 /\ pass.hitLog = <<>>
              /\ pass.returned \in {"none", "false", "undefined"}
              /\ pass.changed =>
                    units = [units EXCEPT !["s"] =
                               [pass.source[1] EXCEPT !.widthOneThird = units["s"].widthOneThird]]
        /\ ~zoneObjects.present => pass.calls = 0

\* an inert source called against a bucket of two targets that overlap it
C5_Witness ==
    /\ pass.calls = 1 /\ pass.returned = "false"
    /\ pass.source # <<>> /\ pass.source[1].isInert
    /\ zoneObjects.ids = <<"a", "b">>
    /\ units["a"].x = 2 /\ ~units["a"].dead /\ units["a"].isEnemy # units["s"].isEnemy

\* a timeout of this kind has just run its callback
fired(kind) == aiTimeouts'[kind] < aiTimeouts[kind]

\* C11: a timer callback of the AI (missile launch, chase roll, paratrooper
\* drop, retaliation clear) that fires while its owner is dead changes
\* nothing of the owner's state, and a missile launch whose target died
\* during the delay does not switch missile launching on.
C11_CallbacksCheckLiveness ==
    [][/\ (heli.dead /\ \E kind \in AIKinds : fired(kind)) => heli' = heli
       /\ (fired("missileLaunch") /\ opponent.dead) => ~heli'.missileLaunching]_vars

\* C12: when die returns, no timeout of the AI is pending any more.
C12_DieCancelsTimers ==
    [][(~heli.dead /\ heli'.dead) => \A kind \in AIKinds : aiTimeouts'[kind] = 0]_vars

\* the helicopter has just launched a smart missile at the opponent
launchedAtOpponent ==
    /\ heli'.smartMissiles < heli.smartMissiles
    /\ aiTimers.missileTarget = "opponent"

\* C14: unless the game is extreme, at the moment the helicopter launches a
\* smart missile at the opposing helicopter no active smart missile has that
\* helicopter as its target.
C14_NoLaunchAtTargetedHelicopter ==
    [][(launchedAtOpponent /\ gameConfig.gameType # "extreme") => smartMissiles = 0]_vars

\* C15: once the AI has launched a retaliation missile at a helicopter, or
\* is the target of a smart missile a helicopter launched, with killCopterB
\* and attackB set, its retaliation flag is true.
C15_RetaliationEngaged ==
    [][(/\ gameConfig.killCopterB /\ heli.attackB
        /\ \/ fired("missileLaunch") /\ ~heli.dead /\ ~opponent.dead
           \/ aiLog'.op = "missileIncoming" /\ aiLog'.asked)
       => heli'.retaliation]_vars

\* the last handler was a hit in the case C13 describes: opposing-helicopter
\* gunfire, energy at or below the threshold, missiles allowed and carried,
\* an opposing helicopter in view
hitAsksForLaunch == aiLog'.op = "onHit" /\ aiLog'.asked

scheduledLaunches == aiTimeouts'["missileLaunch"] - aiTimeouts["missileLaunch"]

\* C13 as claimed: a hit in that case with no launch pending schedules a
\* launch, a hit with a launch pending schedules none, and the callback of a
\* launch switches missile launching on.
C13_HitSchedulesOneLaunch ==
    [][/\ (hitAsksForLaunch /\ ~aiTimers.missileLaunchTimer) => scheduledLaunches = 1
       /\ (aiLog'.op = "onHit" /\ aiTimers.missileLaunchTimer) => scheduledLaunches = 0
       /\ fired("missileLaunch") => ~heli.missileLaunching /\ heli'.missileLaunching
       /\ fired("missileLaunchStop") => ~heli'.missileLaunching]_vars

\* C13, amended: outside the tutorial, a hit in that case with no launch
\* pending schedules exactly one launch iff the game is extreme or no active
\* smart missile targets the opponent; a hit with a launch pending schedules
\* none; at most one launch or stop step is pending at a time; the callback
\* switches missile launching on, from off, iff owner and target are both
\* alive when it fires (else it only drops the pending launch), and the stop
\* step switches it off.
C13_HitSchedulesOneLaunchUnlessTargeted ==
    /\ [](aiTimeouts["missileLaunch"] + aiTimeouts["missileLaunchStop"] <= 1)
    /\ [][/\ (hitAsksForLaunch /\ ~aiTimers.missileLaunchTimer) =>
                scheduledLaunches =
                    IF /\ ~gameConfig.tutorialMode
                       /\ gameConfig.gameType = "extreme" \/ smartMissiles = 0
                    THEN 1 ELSE 0
          /\ (aiLog'.op = "onHit" /\ aiTimers.missileLaunchTimer) => scheduledLaunches = 0
          /\ (fired("missileLaunch") /\ ~heli.dead /\ ~opponent.dead) =>
                /\ ~heli.missileLaunching /\ heli'.missileLaunching
                /\ aiTimeouts'["missileLaunchStop"] = 1
          /\ (fired("missileLaunch") /\ (heli.dead \/ opponent.dead)) =>
                /\ heli' = heli
                /\ ~aiTimers'.missileLaunchTimer
                /\ aiTimeouts'["missileLaunchStop"] = 0
          /\ fired("missileLaunchStop") =>
                ~heli'.missileLaunching /\ ~aiTimers'.missileLaunchTimer]_vars

C13_Witness ==
    /\ aiLog.op = "onHit" /\ aiLog.asked
    /\ aiTimers.missileLaunchTimer /\ aiTimeouts["missileLaunch"] = 1
    /\ smartMissiles = 0 /\ gameConfig.gameType = "easy"

\* a deployment has just been scheduled
deploymentStarted == aiTimeouts'["parachutingStart"] > aiTimeouts["parachutingStart"]

parachutingPending == aiTimeouts["parachutingStart"] + aiTimeouts["parachutingStop"]

\* C20 as claimed: at most one parachuting action is pending, a drop
\* function called while one is pending schedules nothing, parachuting is
\* switched on only from off, and no deployment starts while the cooldown of
\* an earlier one (paratrooperDropTimer) is running.
C20_OneDeploymentPerCooldown ==
    /\ [](parachutingPending <= 1)
    /\ [][/\ aiTimers.parachutingActiveTimer => ~deploymentStarted
          /\ fired("parachutingStart") => ~heli.parachuting
          /\ deploymentStarted => ~aiTimers.paratrooperDropTimer]_vars

\* C20, amended: at most one parachuting action is pending, and one is
\* pending exactly while parachutingActiveTimer is set; a drop function
\* called meanwhile schedules nothing; parachuting is switched on only from
\* off; the cooldown holds back target drops only: a deployment that starts
\* while paratrooperDropTimer is running is an end-bunker raid or a decoy,
\* and a target drop starts its own cooldown.
C20_OneDeploymentInFlight ==
    /\ [](parachutingPending = IF aiTimers.parachutingActiveTimer THEN 1 ELSE 0)
    /\ [][/\ aiTimers.parachutingActiveTimer => ~deploymentStarted
          /\ fired("parachutingStart") => ~heli.parachuting /\ heli'.parachuting
          /\ fired("parachutingStop") => ~heli'.parachuting
          /\ (deploymentStarted /\ aiTimers.paratrooperDropTimer) =>
                aiLog'.kind \in {"raid", "decoy"}
          /\ (deploymentStarted /\ aiLog'.kind = "target") =>
                ~aiTimers.paratrooperDropTimer /\ aiTimers'.paratrooperDropTimer]_vars

\* a raid or a decoy has started while the cooldown of a target drop runs
C20_Witness ==
    /\ aiLog.kind \in {"raid", "decoy"} /\ aiLog.cooldown
    /\ aiTimers.paratrooperDropTimer /\ aiTimeouts["paratrooperDrop"] = 1
    /\ aiTimers.parachutingActiveTimer /\ aiTimeouts["parachutingStart"] = 1

\* ---- one tick of the AI
aliveAndVisible(id) == ~scene.units[id].dead /\ ~scene.units[id].cloaked

\* C16: every unit a tick casts an ammo or a bomb vote against is alive and
\* not cloaked when the vote is cast, whether it is the primary target, an
\* opposing helicopter found by the attack-mode scan, or a threat.
C16_VotedTargetsAliveAndVisible ==
    /\ \A i \in DOMAIN cpu.ammoTargets : aliveAndVisible(cpu.ammoTargets[i])
    /\ \A i \in DOMAIN cpu.bombTargets : aliveAndVisible(cpu.bombTargets[i])

resolvedOffPad == tickLog.ran /\ ~cpu.onLandingPad

\* C17 as stated: after maybeFireOrBomb in a tick off the landing pad, the
\* firing intent is on iff the tick has an ammo vote and ammo remains, and
\* the bombing intent is on iff the tick has a bomb vote and bombs remain.
C17_IntentNeedsVotesAndStock ==
    resolvedOffPad =>
        /\ cpu.firing <=> (cpu.votes.ammo > 0 /\ cpu.ammo > 0)
        /\ cpu.bombing <=> (cpu.votes.bomb > 0 /\ cpu.bombs > 0)

\* C17 amended: after maybeFireOrBomb in a tick off the landing pad, the
\* firing intent is on iff the tick has an ammo vote, whatever ammo is
\* left; the bombing intent is on iff the tick has a bomb vote, and a bomb
\* vote is only ever cast while bombs remain.
C17_IntentFollowsVotes ==
    resolvedOffPad =>
        /\ cpu.firing <=> cpu.votes.ammo > 0
        /\ cpu.bombing <=> cpu.votes.bomb > 0
        /\ cpu.votes.bomb > 0 => cpu.bombs > 0

C17_Witness ==
    /\ resolvedOffPad
    /\ cpu.votes.ammo > 0 /\ cpu.ammo = 0 /\ cpu.firing
    /\ cpu.votes.bomb > 0 /\ cpu.bombing

\* C18: at the end of every tick that runs the pipeline, |vX| and |vY| are
\* at most vXMax / 2, and at most vXMaxClipped / 2 when the clipped speed is
\* in use and retaliation is not engaged.
C18_VelocityThrottled ==
    tickLog.ran =>
        /\ Abs(cpu.vX) <= cpu.vXMax \div 2
        /\ Abs(cpu.vY) <= cpu.vXMax \div 2
        /\ cpu.useClippedSpeed /\ ~cpu.retaliation =>
              /\ Abs(cpu.vX) <= cpu.vXMaxClipped \div 2
              /\ Abs(cpu.vY) <= cpu.vXMaxClipped \div 2

C18_Witness ==
    /\ tickLog.ran /\ cpu.useClippedSpeed
    /\ cpu.vXMaxClipped < cpu.vXMax
    /\ Abs(tickLog.vX) > cpu.vXMax \div 2
    /\ Abs(tickLog.vY) > cpu.vXMaxClipped \div 2
    /\ Abs(cpu.vX) = cpu.vXMaxClipped \div 2
    /\ Abs(cpu.vY) = cpu.vXMaxClipped \div 2

\* the conditions of a refit other than fuel, as the claim lists them
refitReasons ==
    {r \in {"ammo", "bombs", "energy", "level"} :
        \/ r = "ammo" /\ (IF scene.bullets THEN cpu.ammo < 6 ELSE cpu.ammo = 0)
        \/ r = "bombs" /\ cpu.bombs = 0
        \/ r = "energy" /\ cpu.energy < 5
        \/ r = "level" /\ scene.levelNumber \in {1, 2}}

\* C19: needsRefit of landingPadCheck is true iff fuel is below needsFuel
\* or at least two of {low ammo, no bombs, energy below 5, level 1 or 2}
\* hold; low fuel alone suffices, and an airborne helicopter in need of a
\* refit is sent to the landing pad.
C19_NeedsRefit ==
    tickLog.ran =>
        /\ tickLog.needsRefit <=>
              (cpu.fuel < cpu.needsFuel \/ Cardinality(refitReasons) >= 2)
        /\ cpu.fuel < cpu.needsFuel => tickLog.needsRefit
        /\ tickLog.needsRefit /\ ~cpu.landed /\ ~cpu.repairing => cpu.wantsLandingPad

C19_Witness ==
    /\ tickLog.ran /\ tickLog.needsRefit
    /\ cpu.fuel = 10 /\ cpu.needsFuel = 25 /\ refitReasons = {}
    /\ ~cpu.landed /\ cpu.wantsLandingPad

\* ---- the hit response
rollScheduled == aiTimeouts'["respondToHit"] > aiTimeouts["respondToHit"]

\* C21: a hit schedules a hit-response roll only if the helicopter is not
\* already targeting helicopters and both killCopterB and attack mode are
\* on, and only when no roll is pending: however many hits arrive, at most
\* one roll is pending, until its callback has run.
C21_OneRollPerWindow ==
    /\ [](/\ aiTimeouts["respondToHit"] <= 1
          /\ aiTimers.respondToHitTimer <=> aiTimeouts["respondToHit"] = 1)
    /\ [][rollScheduled =>
            /\ aiLog'.op = "onHit"
            /\ ~heli.helicopters /\ gameConfig.killCopterB /\ heli.attackB
            /\ ~aiTimers.respondToHitTimer]_vars

\* a further hit while a roll is pending: with bullets a missile launch is
\* only ever scheduled by a hit, and the launch of an earlier hit has begun
C21_Witness ==
    /\ aiLog.op = "onHit"
    /\ aiTimers.respondToHitTimer /\ aiTimeouts["respondToHit"] = 1
    /\ gameConfig.bullets /\ heli.missileLaunching
    /\ ~heli.helicopters /\ gameConfig.killCopterB /\ heli.attackB

\* ---- the effect of collisionCheckTweens
QEq(a, b) == a.n * b.d = b.n * a.d

\* step k of the passed source overlaps the target
stepOverlaps(k) ==
    collisionCheckWithOffsets(tweenResult.sData, tData,
                              tweenOffset(tweenResult.sData, tweenResult.sData.vX, k),
                              tweenOffset(tweenResult.sData, tweenResult.sData.vY, k))

\* the source is where it was passed, moved by the offset of step k, and
\* otherwise as passed
movedByStep(k) ==
    LET o == tweenResult.sData
    IN  /\ QEq(Q(sData.x, sData.q), QAdd(Q(o.x, o.q), tweenOffset(o, o.vX, k)))
        /\ QEq(Q(sData.y, sData.q), QAdd(Q(o.y, o.q), tweenOffset(o, o.vY, k)))
        /\ QEq(Q(sData.width, sData.q), Q(o.width, o.q))
        /\ QEq(Q(sData.height, sData.q), Q(o.height, o.q))
        /\ QEq(Q(sData.vX, sData.q), Q(o.vX, o.q))
        /\ QEq(Q(sData.vY, sData.q), Q(o.vY, o.q))
        /\ sData.expired = o.expired /\ sData.hostile = o.hostile

\* C27: collisionCheckTweens moves the source only when it returns true with
\* repositionOnHit true, then by exactly the offset of the first overlapping
\* intermediate step; when it returns a falsy result or repositionOnHit is
\* false the source is left as passed, and the target is never changed.
C27_RepositionOnlyOnHit ==
    /\ [](tweenResult.returned # "none" =>
            IF tweenResult.returned = "true" /\ repositionOnHit
            THEN \E k \in 1..tweenIterations(tweenResult.sData) :
                    /\ stepOverlaps(k)
                    /\ \A j \in 1..(k - 1) : ~stepOverlaps(j)
                    /\ movedByStep(k)
            ELSE sData = tweenResult.sData)
    /\ [][tData' = tData]_vars

C27_Witness ==
    /\ tweenResult.returned = "true" /\ repositionOnHit
    /\ tweenResult.step > 1
    /\ sData.q # tweenResult.sData.q
    /\ ~QEq(Q(sData.x, sData.q), Q(tweenResult.sData.x, tweenResult.sData.q))

\* ---- zone membership
\* a zone of the unit that the call consults is unset or has no bucket
zoneUninitialized ==
    \/ member.frontZone = "null" \/ member.rearZone = "null"
    \/ noBucket(member.frontZone)
    \/ member.multiZone /\ noBucket(member.rearZone)

\* C28: collisionTest and nearbyTest never throw on a unit whose zone
\* membership is not initialized (a zone unset, or a zone index with no
\* bucket) and call collisionCheckObject, and so hit, on no bucket of such
\* a zone; for a unit whose zones are set and have buckets, single-zone
\* units included, they run the dispatch on the front zone's targets.
C28_UninitializedZonesSkipped ==
    zoneLog.fn # "none" =>
        /\ ~zoneLog.threw
        /\ \A i \in DOMAIN zoneLog.dispatched : ~noBucket(zoneLog.dispatched[i][1])
        /\ member.frontZone = "null" => zoneLog.dispatched = <<>>
        /\ (~zoneUninitialized /\ zoneLog.items # <<>>
              /\ objectsByZone[member.frontZone][zoneLog.items[1]]) =>
                 /\ zoneLog.dispatched # <<>>
                 /\ zoneLog.dispatched[1] = <<member.frontZone, zoneLog.items[1]>>

\* the trigger distance in force for a call that requested r
inForce(r) ==
    IF world.net THEN NET_TRIGGER_DISTANCE ELSE IF r = <<>> THEN 512 ELSE r[1]

\* the units objectsInView is asked about, and those a call should list
askedAbout ==
    {id \in DOMAIN world.data :
        \E i \in 1..Len(query.options.items) :
            world.data[id].type = query.options.items[i]}
        \cup IF query.options.items = <<>> THEN {"h1"} ELSE {}

shouldList(r) ==
    {id \in askedAbout :
        LET iData == world.data[id]
        IN  /\ ~iData.dead /\ ~iData.cloaked /\ ~iData.isInert
            /\ Abs(iData.x - query.data.x) < inForce(r)
            /\ CASE query.options.enemyOnly ->
                        /\ query.data.isHostile \/ iData.isEnemy # query.data.isEnemy
                        /\ ~iData.isNeutral
                 [] query.options.friendlyOnly -> iData.isEnemy = query.data.isEnemy
                 [] OTHER -> iData.isEnemy # query.data.isEnemy \/ iData.isNeutral}

\* C23: objectsInView lists exactly the live, uncloaked, non-inert units of
\* the requested types strictly within the trigger distance on x that match
\* the faction relation, each once, nearest first; objectInView is the first
\* id of the list, or null when it is empty.
C23_InViewExactAndOrdered ==
    query.fn = "objectsInView" =>
        \A r \in Requested :
            LET ids == found[r].ids
            IN  /\ {ids[i] : i \in 1..Len(ids)} = shouldList(r)
                /\ Len(ids) = Cardinality(shouldList(r))
                /\ \A i \in 1..(Len(ids) - 1) :
                        Abs(world.data[ids[i]].x - query.data.x)
                            <= Abs(world.data[ids[i + 1]].x - query.data.x)
                /\ found[r].first = IF ids = <<>> THEN "null" ELSE ids[1]

\* two units listed after a farther one was walked first, one cloaked unit
\* left out
C23_Witness ==
    /\ query.fn = "objectsInView"
    /\ query.options.items = <<"tank", "helicopter">>
    /\ world.data["h1"].cloaked
    /\ found[<<>>].ids = <<"t2", "t1">>
    /\ found[<<100>>].first = "t2"

\* C25 as stated: in a network session every proximity query returns the same
\* result whatever trigger distance the caller passes.
C25_NetIgnoresRequested ==
    (query.fn # "none" /\ world.net) =>
        \A r1, r2 \in Requested : found[r1] = found[r2]

\* C25 amended: in a network session objectsInView, enemyNearby, and
\* enemyHelicopterNearby for a source that is not a van and without circle
\* math, return the same result whatever trigger distance the caller passes.
C25_NetIgnoresRequestedButVanAndCircle ==
    (/\ query.fn # "none" /\ world.net
     /\ query.fn = "enemyHelicopterNearby" =>
            query.data.type # "van" /\ ~query.useCircleMath) =>
        \A r1, r2 \in Requested : found[r1] = found[r2]

\* a network call that lists a unit 100 away although 100 was requested
C25_Witness ==
    /\ world.net
    /\ query.fn = "enemyNearby"
    /\ world.data["t1"].x = 100
    /\ found[<<100>>].ids = <<"t1">>
    /\ found[<<600>>].ids = <<"t1">>

\* the candidates of the call made, best-ranked first
candidates == ranked(query.data, query.options)

typeOf(id) == world.data[id].type

\* C22: for a helicopter source, a best-ranked super bunker that is the only
\* candidate or is followed by a bottom-aligned candidate yields no target; a
\* best-ranked super bunker followed by a candidate that is not bottom-aligned
\* is dropped and the next candidate is returned; with only a super bunker 50
\* away and an opposing helicopter 80 away, the helicopter is returned, alone
\* or at the head of the getAll list.
C22_SuperBunkerBlocksOrIsDropped ==
    (query.fn = "getNearestObject" /\ query.data.type = "helicopter") =>
        /\ (/\ candidates # <<>> /\ typeOf(candidates[1]) = "superBunker"
            /\ (Len(candidates) = 1 \/ world.data[candidates[2]].bottomAligned))
                => found.kind = "undefined" /\ found.ids = <<>>
        /\ (/\ Len(candidates) >= 2 /\ typeOf(candidates[1]) = "superBunker"
            /\ ~world.data[candidates[2]].bottomAligned)
                => IF query.options.getAll
                   THEN found = Returned("list", Tail(candidates))
                   ELSE found = Returned("id", <<candidates[2]>>)
        /\ {candidates[i] : i \in 1..Len(candidates)} = {"sb", "h1"}
                => found.ids # <<>> /\ found.ids[1] = "h1"

\* a friendly helicopter with the super bunker ranked first and the opposing
\* helicopter behind it
C22_Witness ==
    /\ query.fn = "getNearestObject"
    /\ query.data.type = "helicopter" /\ ~query.data.isEnemy
    /\ ~query.options.getAll
    /\ candidates = <<"sb", "h1">>
    /\ found = Returned("id", <<"h1">>)

\* whether no unit of the world may be targeted by the source at all
nothingToTarget ==
    \A id \in DOMAIN world.data :
        \/ world.data[id].dead \/ world.data[id].cloaked
        \/ world.data[id].isEnemy = query.data.isEnemy /\ ~world.data[id].hostile

\* C24: no unit returned by getNearestObject, alone or in its getAll list, is
\* dead, cloaked, or of the source's faction and not hostile; when no
\* candidate qualifies it returns null, or an empty list with getAll.
C24_NeverDeadCloakedOrOwn ==
    query.fn = "getNearestObject" =>
        /\ \A i \in 1..Len(found.ids) :
                LET t == world.data[found.ids[i]]
                IN  /\ ~t.dead /\ ~t.cloaked
                    /\ ~(t.isEnemy = query.data.isEnemy /\ ~t.hostile)
        /\ (nothingToTarget \/ candidates = <<>>) =>
                found = IF query.options.getAll THEN Returned("list", <<>>)
                        ELSE Returned("null", <<>>)

\* a list that leaves out a dead tank nearer than the units it holds, and a
\* call that finds nothing although units are around
C24_Witness ==
    /\ query.fn = "getNearestObject"
    /\ \/ /\ query.options.getAll
          /\ world.data["t1"].dead /\ world.data["t1"].x = 1040
          /\ world.data["t1"].isEnemy # query.data.isEnemy
          /\ Len(found.ids) >= 2
       \/ /\ nothingToTarget /\ found.kind = "null"
          /\ world.data["h1"].cloaked

\* the number helicopter h would be given if it drew now
nextDrawOf(h) == aiRNG(h, 1, world).value

\* C26: a draw by one helicopter advances only that helicopter's stream: the
\* number any other helicopter would be given next is the same before and
\* after the draw.
C26_DrawsLeaveOtherStreams ==
    [][\A h \in Helis :
          (query'.fn = "aiRNG" /\ query'.aiSeedOffset # h)
              => nextDrawOf(h)' = nextDrawOf(h)]_vars

\* the tokens of the type string of the call, and the type each one names
tokens == parseTypeString(query.typeString)

namedType(token) == IF hasColon(token) THEN typeAndGroup(token)[1] ELSE token

unknownToken == \E i \in 1..Len(tokens) : TYPES(namedType(tokens[i])) = "undefined"

\* the group an item should carry: the one asked for, enemy and friendly
\* swapped for an enemy or hostile requester
groupFor(asked) ==
    IF asked \in {"enemy", "friendly"}
          /\ (query.options.exports.isEnemy \/ query.options.exports.hostile)
    THEN IF asked = "enemy" THEN "friendly" ELSE "enemy"
    ELSE asked

\* whether the call names a requesting unit and only groups that exist
wellFormedGroups ==
    /\ query.options.exports.present
    /\ \A i \in 1..Len(tokens) :
          hasColon(tokens[i]) =>
              typeAndGroup(tokens[i])[2] \in {"friendly", "enemy", "all"}

\* C29: getTypes faults when the type string holds a token that is no known
\* unit type, instead of returning an item whose type is undefined; for known
\* tokens, asked by a unit, every item has a defined type and a group among
\* friendly, enemy and all, enemy and friendly swapped for an enemy or hostile
\* requester.
C29_UnknownTokenFaults ==
    (query.fn = "getTypes" /\ query.typeString.isString) =>
        /\ unknownToken => found.kind = "fault"
        /\ (~unknownToken /\ wellFormedGroups) =>
             /\ found.kind = "list"
             /\ \A i \in 1..Len(found.ids) :
                    /\ found.ids[i].type # "undefined"
                    /\ found.ids[i].group \in {"friendly", "enemy", "all"}
                    /\ found.ids[i].group =
                            groupFor(IF hasColon(tokens[i])
                                     THEN typeAndGroup(tokens[i])[2]
                                     ELSE IF query.options.group = "" THEN "enemy"
                                     ELSE query.options.group)

\* whether the search for a type is enabled for the helicopter of the call:
\* its targeting flag, and for tanks bombs to drop and a level that allows it
searchEnabled(type) ==
    CASE type = "helicopter" -> query.data.targeting.helicopters
      [] type = "tank" -> /\ query.data.targeting.tanks
                          /\ query.data.bombs > 0 /\ world.scatterBombB
      [] type = "bunker" -> query.data.targeting.bunkers
      [] type = "superBunker" -> query.data.targeting.superBunkers
      [] type = "cloud" -> query.data.targeting.clouds

matchAt(i) == searchEnabled(TargetTypes[i]) /\ world.inView[TargetTypes[i]] # "null"

\* C30: the primary target is the first in-view match in the order helicopter,
\* tank, bunker, super bunker, cloud among the enabled searches: a type is
\* chosen only if no enabled type before it has a match, and a match is never
\* given up because a later search found nothing.
C30_FirstMatchInPriorityOrder ==
    (query.fn = "checkLastAndNewTarget" /\ ~found.returned) =>
        /\ \A i \in 1..Len(TargetTypes) :
              (matchAt(i) /\ \A j \in 1..(i - 1) : ~matchAt(j))
                  => found.newTarget = world.inView[TargetTypes[i]]
        /\ (\A i \in 1..Len(TargetTypes) : ~matchAt(i)) => found.newTarget = "null"

\* the units that pass the tests of the search of the call, super bunkers
\* apart
reachable ==
    {id \in DOMAIN world.data :
        /\ isLocalObject(world.data[id], query.data, query.options)
        /\ typeOf(id) # "superBunker"}

\* whether a ranks before b for the source of the call, or level with it
ranksBefore(a, b) ==
    IF query.data.type = "helicopter" /\ query.data.isEnemy
    THEN totalDistanceSquared(a, query.data) >= totalDistanceSquared(b, query.data)
    ELSE totalDistanceSquared(a, query.data) <= totalDistanceSquared(b, query.data)

refitTick == tickLog.ran /\ tickLog.needsRefit /\ ~cpu.landed /\ ~cpu.repairing

\* C31: in a tick where the needs-refit condition holds and the helicopter is
\* neither landed nor repairing, the AI heads for the landing pad and casts no
\* ammo vote and no bomb vote.
C31_RefitTickCastsNoVote ==
    refitTick =>
        /\ cpu.wantsLandingPad
        /\ cpu.votes.ammo = 0 /\ cpu.votes.bomb = 0
        /\ cpu.ammoTargets = <<>> /\ cpu.bombTargets = <<>>

\* whether no target of the list is nearer the helicopter on x than id
nearestOf(id, ids) ==
    \A i \in 1..Len(ids) :
        Abs(world.data[id].x - world.x) <= Abs(world.data[ids[i]].x - world.x)

\* C32: the target the firing rate is set from, kept as ammoTarget, and the
\* target the bombing rate is set from, are the horizontally nearest of the
\* targets voted in the tick.
C32_RatesFromNearestVoted ==
    query.fn = "maybeFireOrBomb" =>
        /\ found.firingRateSet =>
              /\ found.ammoTarget # "null"
              /\ nearestOf(found.ammoTarget, query.data.ammoTargets)
              /\ found.firingRate = world.data[found.ammoTarget].type
        /\ found.bombingRateSet =>
              /\ found.bombTarget # "null"
              /\ nearestOf(found.bombTarget, query.data.bombTargets)
              /\ found.bombingRate = world.data[found.bombTarget].type

\* ---- the offsets of the tween
\* the greater speed of the source as passed (whole numbers per frame)
greaterSpeed == Max(Abs(tweenResult.sData.vX), Abs(tweenResult.sData.vY))

\* whether the source as passed, moved by -v + k * v / divider2 * 2 on each
\* axis, overlaps the target
overlapsAt(k, divider2) ==
    LET o == tweenResult.sData
    IN  collisionCheckWithOffsets(o, tData,
            Q(o.vX * (2 * k - divider2), divider2),
            Q(o.vY * (2 * k - divider2), divider2))

\* whether the call tested the offsets 1..count of that divider in order and
\* stopped at the first overlapping one: it returned true exactly when one
\* overlaps, and moved the source, when asked to, by the first that does
testedInOrder(count, divider2) ==
    LET o == tweenResult.sData
        hits == {k \in 1..count : overlapsAt(k, divider2)}
    IN  /\ tweenResult.returned = "true" <=> hits # {}
        /\ (tweenResult.returned = "true" /\ repositionOnHit) =>
              \E k \in hits :
                  /\ \A j \in hits : k <= j
                  /\ QEq(Q(sData.x, sData.q),
                         QAdd(Q(o.x, 1), Q(o.vX * (2 * k - divider2), divider2)))
                  /\ QEq(Q(sData.y, sData.q),
                         QAdd(Q(o.y, 1), Q(o.vY * (2 * k - divider2), divider2)))

\* C34: the offsets tested are -v + k * v / (steps + 1) for
\* k = 1..steps, steps = max(2, floor(max(|vX|, |vY|) / 2)), in that order up
\* to the first overlapping one.
C34_FloorOfHalfSpeedSteps ==
    tweenResult.returned \in {"true", "false"} =>
        LET steps == Max(2, greaterSpeed \div 2)
        IN  testedInOrder(steps, 2 * (steps + 1))

\* C35: within one collisionTest pass of a source the hit callback is
\* invoked at most once for any target, also when the source is multi-zone
\* and the target is registered in its front zone and in its rear zone.
C35_OneHitPerTargetPerPass ==
    \A i, j \in DOMAIN world.hits :
       (world.hits[i].id = world.hits[j].id /\ world.hits[i].pass = world.hits[j].pass)
          => i = j

\* C36: once a hit callback has killed the source during a collisionTest
\* pass, no further target is hit or damaged by the source in the rest of
\* the pass: the hit callback is never entered with the source dead.
C36_NoHitOnceSourceDied ==
    \A i \in DOMAIN world.hits : ~world.hits[i].deadBefore

\* C37: a bomb's onDie callback is invoked exactly once over the bomb's
\* life: never twice, once as soon as the bomb is dead, and so once when
\* the bomb is destroyed, whatever the target collisions, the ground impact
\* with its collision test inside die, and the repeated die calls.
C37_OnDieExactlyOnce ==
    /\ Len(world.onDie) <= 1
    /\ world.units["s"].dead <=> Len(world.onDie) = 1
    /\ world.removed => Len(world.onDie) = 1

\* a destroyed bomb that hit the ground, hit a target from the collision
\* test inside die, and had die called on it again
C37_Witness ==
    /\ world.removed /\ world.flags.hasHitGround /\ world.flags.groundCollisionTest
    /\ world.dieCalls >= 3
    /\ \E i \in DOMAIN world.hits : world.hits[i].pass = world.passes - 1
    /\ Len(world.onDie) = 1

\* C38: in fire, a bomb drop refused by the ledger withholds only the
\* bomb: a smart-missile launch or paratrooper drop whose intent is on in
\* that tick is still processed in that tick, and the bomb, missile and
\* parachute frame counters still advance.
C38_RefusedBombWithholdsOnlyBomb ==
    (found.fn = "fire" /\ found.refused) =>
        /\ missileDue(found.before) =>
              /\ "smart-missile" \in {found.added[i] : i \in DOMAIN found.added}
              /\ found.after.smartMissiles = found.before.smartMissiles - 1
        /\ parachuteDue(found.before) =>
              /\ "parachute-infantry" \in {found.added[i] : i \in DOMAIN found.added}
              /\ found.after.parachutes = found.before.parachutes - 1
        /\ found.after.bombs = found.before.bombs
        /\ found.after.bombFrameCount = found.before.bombModulus - 1
        /\ found.after.missileLaunchingFrameCount =
              Max(0, found.before.missileLaunchingFrameCount - 1)
        /\ found.after.parachuteFrameCount = found.before.parachuteFrameCount + 1

\* C39: whenever the missile throttle (missileLaunchTimer), the parachuting
\* marker (parachutingActiveTimer) or the paratrooper cooldown
\* (paratrooperDropTimer) is set, it is cleared again later, every scheduled
\* frame timeout firing, whether or not the owner or the target has died.
C39_ThrottlesEventuallyCleared ==
    /\ aiTimers.missileLaunchTimer ~> ~aiTimers.missileLaunchTimer
    /\ aiTimers.parachutingActiveTimer ~> ~aiTimers.parachutingActiveTimer
    /\ aiTimers.paratrooperDropTimer ~> ~aiTimers.paratrooperDropTimer

\* the owner dead and its target dead with a launch, a deployment and a
\* cooldown still pending
C39_Witness ==
    /\ heli.dead /\ opponent.dead
    /\ aiTimers.missileLaunchTimer /\ aiTimeouts["missileLaunch"] > 0
    /\ aiTimers.parachutingActiveTimer /\ aiTimers.paratrooperDropTimer

\* C40: in every reachable state of a CPU helicopter outside tutorial mode,
\* targeting.helicopters is true only if targeting.attackB is true and the
\* level enables killCopterB, under any interleaving of the periodic
\* re-roll, the delayed hit-response roll and onKill.
C40_ChaseOnlyInAttackMode ==
    (~gameConfig.tutorialMode /\ heli.helicopters) =>
        (heli.attackB /\ gameConfig.killCopterB)

\* chasing helicopters again after a re-roll, with the roll of an earlier
\* hit still pending
C40_Witness ==
    /\ ~gameConfig.tutorialMode /\ heli.helicopters
    /\ aiTimers.respondToHitTimer /\ aiTimeouts["respondToHit"] > 0
    /\ aiLog.op = "reroll"

====
